---- MODULE Spec2Model ----
(***************************************************************************)
(* Image2Excel: the fallback chain of RunImageToExcel, the two GUI entry   *)
(* points that start pipeline runs, GridExtractor's crop bounds and the    *)
(* TemplateManager's persistence, the OCREngine's read_cell and the        *)
(* column postprocessor.                                                   *)
(*                                                                         *)
(* Texts are sequences of one-character strings ("" is <<>>), so that      *)
(* strip, truthiness and join are computed and not assumed.                *)
(***************************************************************************)
EXTENDS Integers, Sequences, FiniteSets, TLC

(***************************************************************************)
(* Bounds of the model.                                                    *)
(***************************************************************************)
MaxGridRows == 2      \* rows of a grid returned by strategy 1 or 2
MaxWords == 3         \* OCR words returned to the line-clustering strategy
MaxColsBound == 2     \* largest max_cols override tried
MaxRuns == 3          \* convert requests that start a worker, per GUI session
MaxCells == 2         \* cells of a GridSpec handed to the GridExtractor
MaxImg == 3           \* largest image width and height, in pixels
MaxPad == 2           \* largest pad tried besides the default
MaxTplCells == 2      \* cells of a GridSpec handed to TemplateManager.save
MaxOps == 2           \* save / load calls on one TemplateManager
MaxReads == 3         \* read_cell calls on one OCREngine
MaxTextLen == 3       \* characters of a text handed to postprocess_by_column
MaxTplRows == 2       \* largest row index a GridSpec declares
MaxExecs == 2         \* executions of OCRWorker.run
MaxLines == 2         \* texts detected by one run_ocr call
MaxAssigns == 2       \* assignments to one AppConfig
MaxParseLines == 2    \* lines of one OCRResult
MaxCalls == 3         \* calls made on one PaddleOCREngine

VARIABLES
    pc,         \* position inside RunImageToExcel.__call__
    cfg,        \* RunImageToExcelConfig: template_path set?, max_cols
    grid,       \* the local variable `grid` of __call__
    table,      \* the local variable `table` of __call__ (rows of cells)
    trace,      \* history of the run: strategies invoked, export calls
    result,     \* what the caller receives
    entry,              \* which GUI entry point is running: "main" or "app_window"
    m_image_path,       \* main.py: self.image_path is non-empty
    m_output_path,      \* main.py: self.output_path is non-empty
    m_convert_btn,      \* main.py: convert_btn.isEnabled()
    m_workers,          \* main.py: every OCRWorker created, with its position
    m_events,           \* main.py: signals queued for the GUI thread
    a_selected_image_path,  \* gui/app_window.py: selected_image_path is set
    a_selected_output_dir,  \* gui/app_window.py: selected_output_dir is set
    a_convert_button,   \* gui/app_window.py: convert_button.isEnabled()
    a_select_buttons,   \* gui/app_window.py: select_*_button.isEnabled()
    a_assisted,         \* gui/app_window.py: assisted_mode_checkbox.isChecked()
    a_workers,          \* gui/app_window.py: every OCRWorker created
    a_events,           \* gui/app_window.py: signals queued for the GUI thread
    a_log,              \* gui/app_window.py: what the last convert request logged
    g_pc,       \* GridExtractor: "ready" before crop_cells, "cropped" after
    g_spec,     \* GridExtractor.spec
    g_pad,      \* GridExtractor.pad
    g_img,      \* shape of the image handed to crop_cells: [w, h]
    g_bounds,   \* the bounds x1, y1, x2, y2 crop_cells computed, per cell
    g_crops,    \* the list crop_cells returned
    g_singles,  \* per cell, the region extract_single_cell returned
    t_files,    \* TemplateManager: content of <templates_dir>/<name>.json, per name
    t_saved,    \* per name, the GridSpec the last save() wrote there, if any
    t_last,     \* the last save / load call and what it returned
    t_ops,      \* number of calls made
    o_paddle_ocr,   \* OCREngine._paddle_ocr: NoOcr for None, else the instance
    o_built,        \* number of PaddleOCR instances constructed so far
    o_log,          \* history: one record per read_cell call
    p_pc,       \* postprocess: "in" before the call, "once" after it, "twice"
    p_col,      \* the column_name argument
    p_text,     \* the text argument
    p_out,      \* postprocess_by_column(p_col, p_text)
    p_out2,     \* postprocess_by_column(p_col, p_out)
    w_pc,       \* words_to_table: "in" before the call, "done" after it
    w_words,    \* the words argument
    w_max_cols, \* the max_cols argument: <<>> for None, <<n>> for the int n
    w_rows,     \* the local variable `rows`: the lines of words
    w_table,    \* the rows of cells of the Table returned
    r_pc, \* row reconstruction: "in" before it, "done" after
    r_cells, \* the (row, col) slots the GridSpec declares
    r_values, \* the recognized cells, in recognition order
    r_grid,\* the reconstructed grid
    k_pc, \* OCRWorker.run (gui/app_window.py): position inside run()
    k_signals, \* the signals the current execution has emitted, in order
    k_runs,\* the signals of every execution that has returned
    e_pc, \* ProcessImageToExcel.execute: position
    e_dets, \* the texts PaddleOCR detected, in order
    e_detector, \* what the table detector does when called
    e_ocr, \* the OcrResult of run_ocr
    e_table, \* the local variable table of execute (rows of cell texts)
    e_written, \* the workbook written, <<>> while none is
    e_result,\* what execute returned or raised
    c_config, \* the AppConfig object, <<>> before it is constructed, else <<ocr_min_confidence>>
    c_log,\* what each construction or assignment did
    q_pc, \* TableParser: which call was made
    q_config, \* the ParsingConfig of the parser
    q_lines, \* the lines of the OCRResult
    q_columns, \* what _split_line_into_columns returned
    q_out,\* what parse_ocr_to_table returned or raised
    n_ocr, \* PaddleOCREngine._ocr: NoOcr for None, else the number of the PaddleOCR instance
    n_initialized, \* PaddleOCREngine._initialized
    n_times, \* len(PaddleOCREngine._processing_times)
    n_built, \* PaddleOCR instances built for _ocr so far
    n_log \* the calls made on the engine and how each ended

chainVars == <<pc, cfg, grid, table, trace, result>>
mainGuiVars == <<m_image_path, m_output_path, m_convert_btn, m_workers, m_events>>
appGuiVars == <<a_selected_image_path, a_selected_output_dir, a_convert_button,
                a_select_buttons, a_assisted, a_workers, a_events, a_log>>
guiVars == <<entry, mainGuiVars, appGuiVars>>

cropVars == <<g_pc, g_spec, g_pad, g_img, g_bounds, g_crops, g_singles>>

tplVars == <<t_files, t_saved, t_last, t_ops>>

ocrVars == <<o_paddle_ocr, o_built, o_log>>

postVars == <<p_pc, p_col, p_text, p_out, p_out2>>

wordsVars == <<w_pc, w_words, w_max_cols, w_rows, w_table>>

reconVars == <<r_pc, r_cells, r_values, r_grid>>

workerVars == <<k_pc, k_signals, k_runs>>

execVars == <<e_pc, e_dets, e_detector, e_ocr, e_table, e_written, e_result>>

configVars == <<c_config, c_log>>

parserVars == <<q_pc, q_config, q_lines, q_columns, q_out>>

engineVars == <<n_ocr, n_initialized, n_times, n_built, n_log>>

vars == <<chainVars, guiVars, cropVars, tplVars, ocrVars, postVars, wordsVars, reconVars, workerVars, execVars, configVars, parserVars, engineVars>>
notChainVars == <<guiVars, cropVars, tplVars, ocrVars, postVars, wordsVars, reconVars, workerVars, execVars, configVars, parserVars, engineVars>>
notGuiVars == <<chainVars, cropVars, tplVars, ocrVars, postVars, wordsVars, reconVars, workerVars, execVars, configVars, parserVars, engineVars>>
notCropVars == <<chainVars, guiVars, tplVars, ocrVars, postVars, wordsVars, reconVars, workerVars, execVars, configVars, parserVars, engineVars>>
notTplVars == <<chainVars, guiVars, cropVars, ocrVars, postVars, wordsVars, reconVars, workerVars, execVars, configVars, parserVars, engineVars>>
notOcrVars == <<chainVars, guiVars, cropVars, tplVars, postVars, wordsVars, reconVars, workerVars, execVars, configVars, parserVars, engineVars>>
notPostVars == <<chainVars, guiVars, cropVars, tplVars, ocrVars, wordsVars, reconVars, workerVars, execVars, configVars, parserVars, engineVars>>
notWordsVars == <<chainVars, guiVars, cropVars, tplVars, ocrVars, postVars, reconVars, workerVars, execVars, configVars, parserVars, engineVars>>
notReconVars == <<chainVars, guiVars, cropVars, tplVars, ocrVars, postVars, wordsVars, workerVars, execVars, configVars, parserVars, engineVars>>
notWorkerVars == <<chainVars, guiVars, cropVars, tplVars, ocrVars, postVars, wordsVars, reconVars, execVars, configVars, parserVars, engineVars>>
notExecVars == <<chainVars, guiVars, cropVars, tplVars, ocrVars, postVars, wordsVars, reconVars, workerVars, configVars, parserVars, engineVars>>
notConfigVars == <<chainVars, guiVars, cropVars, tplVars, ocrVars, postVars, wordsVars, reconVars, workerVars, execVars, parserVars, engineVars>>
notParserVars == <<chainVars, guiVars, cropVars, tplVars, ocrVars, postVars, wordsVars, reconVars, workerVars, execVars, configVars, engineVars>>
notEngineVars == <<chainVars, guiVars, cropVars, tplVars, ocrVars, postVars, wordsVars, reconVars, workerVars, execVars, configVars, parserVars>>

(***************************************************************************)
(* Python helpers.                                                         *)
(***************************************************************************)
Max(a, b) == IF a >= b THEN a ELSE b
Min(a, b) == IF a <= b THEN a ELSE b

\* int(a / b) for b > 0: truncation toward zero
PyInt(a, b) == IF a >= 0 THEN a \div b ELSE -((-a) \div b)

RECURSIVE SumSeq(_)
SumSeq(s) == IF s = <<>> THEN 0 ELSE Head(s) + SumSeq(Tail(s))

\* str.strip() on a text: drops leading and trailing blanks
IsSpace(ch) == ch = " "
RECURSIVE LStrip(_)
LStrip(t) == IF t /= <<>> /\ IsSpace(Head(t)) THEN LStrip(Tail(t)) ELSE t
RECURSIVE RStrip(_)
RStrip(t) ==
    IF t /= <<>> /\ IsSpace(t[Len(t)]) THEN RStrip(SubSeq(t, 1, Len(t) - 1)) ELSE t
Strip(t) == RStrip(LStrip(t))

\* " ".join(texts)
RECURSIVE JoinSpace(_)
JoinSpace(ts) ==
    IF ts = <<>> THEN <<>>
    ELSE IF Len(ts) = 1 THEN ts[1]
    ELSE ts[1] \o <<" ">> \o JoinSpace(Tail(ts))

\* list.sort / sorted with a key: stable insertion by a "key less-or-equal"
RECURSIVE InsertByYX(_, _)
InsertByYX(w, s) ==
    IF s = <<>> THEN <<w>>
    ELSE LET l == s[Len(s)] IN
         IF l.y < w.y \/ (l.y = w.y /\ l.x <= w.x)
         THEN Append(s, w)
         ELSE Append(InsertByYX(w, SubSeq(s, 1, Len(s) - 1)), l)
RECURSIVE SortByYX(_)
SortByYX(s) ==
    IF s = <<>> THEN <<>>
    ELSE InsertByYX(s[Len(s)], SortByYX(SubSeq(s, 1, Len(s) - 1)))

RECURSIVE InsertByX(_, _)
InsertByX(w, s) ==
    IF s = <<>> THEN <<w>>
    ELSE LET l == s[Len(s)] IN
         IF l.x <= w.x
         THEN Append(s, w)
         ELSE Append(InsertByX(w, SubSeq(s, 1, Len(s) - 1)), l)
RECURSIVE SortByX(_)
SortByX(s) ==
    IF s = <<>> THEN <<>>
    ELSE InsertByX(s[Len(s)], SortByX(SubSeq(s, 1, Len(s) - 1)))

(***************************************************************************)
(* BasicParserAdapter.words_to_table                                       *)
(***************************************************************************)
\* words_to_table without the filter on blank texts
KeepAllWords(words) == words

\* items = [w for w in words if (w.text or "").strip()]
NonBlankWords(words) == SelectSeq(words, LAMBDA w : Strip(w.text) /= <<>>)

\* avg_h = max(1, int(sum(t.h) / len(items)))
AvgHeight(items) ==
    Max(1, PyInt(SumSeq([i \in 1..Len(items) |-> items[i].h]), Len(items)))

\* y_threshold = max(4, avg_h // 2)
YThreshold(items) == Max(4, AvgHeight(items) \div 2)

Abs(a) == IF a >= 0 THEN a ELSE -a

\* the grouping loop comparing each word with the first word of the open row
RECURSIVE GroupRowsFromRowStart(_, _, _, _)
GroupRowsFromRowStart(rest, current, rows, thr) ==
    IF rest = <<>> THEN Append(rows, SortByX(current))
    ELSE LET w == Head(rest) IN
         IF Abs(w.y - current[1].y) <= thr
         THEN GroupRowsFromRowStart(Tail(rest), Append(current, w), rows, thr)
         ELSE GroupRowsFromRowStart(Tail(rest), <<w>>, Append(rows, SortByX(current)), thr)

\* the grouping loop: rest is items still to visit, current the open row,
\* rows the rows already closed
RECURSIVE GroupRows(_, _, _, _)
GroupRows(rest, current, rows, thr) ==
    IF rest = <<>> THEN Append(rows, SortByX(current))
    ELSE LET w == Head(rest) IN
         IF Abs(w.y - current[Len(current)].y) <= thr
         THEN GroupRows(Tail(rest), Append(current, w), rows, thr)
         ELSE GroupRows(Tail(rest), <<w>>, Append(rows, SortByX(current)), thr)

\* lines 64-84: the local variable `rows`, the lines of words
word_rows(words) ==
    LET items == NonBlankWords(words) IN
    IF items = <<>> THEN <<>>
    ELSE LET sorted == SortByYX(items)
         IN GroupRows(Tail(sorted), <<Head(sorted)>>, <<>>, YThreshold(sorted))

\* `max_cols and max_cols > 0` for an Optional[int]: <<>> is None
PositiveMaxCols(max_cols) == max_cols /= <<>> /\ max_cols[1] /= 0 /\ max_cols[1] > 0

\* the cells of one row cut at max_cols, the words beyond it dropped
RowCellsTruncating(line, max_cols) ==
    LET cells == [i \in 1..Len(line) |-> line[i].text] IN
    LET merged ==
            IF PositiveMaxCols(max_cols) /\ Len(cells) > max_cols[1]
            THEN SubSeq(cells, 1, max_cols[1])
            ELSE cells
    IN IF merged /= <<>> THEN merged ELSE << <<>> >>

\* lines 88-95: cells of one row, with the max_cols merge of the tail
RowCells(line, max_cols) ==
    LET cells == [i \in 1..Len(line) |-> line[i].text] IN
    LET merged ==
            IF PositiveMaxCols(max_cols) /\ Len(cells) > max_cols[1]
            THEN Append(SubSeq(cells, 1, max_cols[1] - 1),
                        JoinSpace(SubSeq(cells, max_cols[1], Len(cells))))
            ELSE cells
    IN IF merged /= <<>> THEN merged ELSE << <<>> >>

words_to_table(words, max_cols) ==
    LET rows == word_rows(words) IN
    [i \in 1..Len(rows) |-> RowCells(rows[i], max_cols)]

(***************************************************************************)
(* RunImageToExcel.__call__ : the fallback chain                           *)
(***************************************************************************)
\* grid and any(any(c for c in r) for r in grid): rows is <<>> for None / []
NonTrivial(rows) ==
    \E i \in DOMAIN rows : \E j \in DOMAIN rows[i] : rows[i][j] /= <<>>

\* what a strategy of the chain can hand back
GridRowPool == { <<>>, << <<>> >>, << <<"a">> >>, << <<>>, <<"a">> >> }
RECURSIVE SeqsUpTo(_, _)
SeqsUpTo(S, n) ==
    IF n = 0 THEN { <<>> }
    ELSE LET shorter == SeqsUpTo(S, n - 1) IN
         shorter \cup { Append(s, e) : s \in { t \in shorter : Len(t) = n - 1 }, e \in S }
GridOutcomes ==
    { [tag |-> "raise", rows |-> <<>>], [tag |-> "none", rows |-> <<>>] }
    \cup { [tag |-> "grid", rows |-> g] : g \in SeqsUpTo(GridRowPool, MaxGridRows) }

WordPool ==
    { [text |-> <<" ">>, x |-> 5, y |-> 0, h |-> 8],
      [text |-> <<"a">>, x |-> 0, y |-> 0, h |-> 2],
      [text |-> <<"b">>, x |-> 9, y |-> 3, h |-> 8],
      [text |-> <<"c">>, x |-> 4, y |-> 7, h |-> 8],
      [text |-> <<"d">>, x |-> 2, y |-> 12, h |-> 30] }
WordLists == SeqsUpTo(WordPool, MaxWords)

\* Optional[int]: None, or an int (negative and zero included)
MaxColsValues == { <<>> } \cup { <<n>> : n \in (-1)..MaxColsBound }

Event(op, n, out) == [op |-> op, n |-> n, out |-> out]
Outcome(o) ==
    IF o.tag = "raise" THEN "raised"
    ELSE IF NonTrivial(o.rows) THEN "nontrivial" ELSE "trivial"

NoGrid == [tag |-> "unset", rows |-> <<>>]
Pending == [kind |-> "pending"]

ChainInit ==
    /\ pc = "template"
    /\ cfg \in [template_path : BOOLEAN, max_cols : MaxColsValues]
    /\ grid = NoGrid
    /\ table = <<>>
    /\ trace = <<>>
    /\ result = Pending

\* no run of the use case
ChainIdle ==
    /\ pc = "idle"
    /\ cfg = [template_path |-> FALSE, max_cols |-> <<>>]
    /\ grid = NoGrid
    /\ table = <<>>
    /\ trace = <<>>
    /\ result = Pending

\* line 29, template_path unset: strategy 1 is not entered
SkipTemplate ==
    /\ UNCHANGED notChainVars
    /\ pc = "template"
    /\ ~cfg.template_path
    /\ pc' = "structure"
    /\ UNCHANGED <<cfg, grid, table, trace, result>>

\* lines 29-33 and 38-40: ocr_with_template, any exception swallowed
TemplateStrategy ==
    /\ UNCHANGED notChainVars
    /\ pc = "template"
    /\ cfg.template_path
    /\ \E o \in GridOutcomes :
        /\ trace' = Append(trace, Event("strategy", 1, Outcome(o)))
        /\ grid' = IF o.tag = "raise" THEN grid ELSE o
        /\ pc' = IF o.tag /= "raise" /\ NonTrivial(o.rows)
                 THEN "export_template" ELSE "structure"
    /\ UNCHANGED <<cfg, table, result>>

\* lines 34-40: the export call sits inside the try of strategy 1
ExportTemplate ==
    /\ UNCHANGED notChainVars
    /\ pc = "export_template"
    /\ \E ok \in BOOLEAN :
        /\ trace' = Append(trace, Event("export", 1, IF ok THEN "ok" ELSE "raised"))
        /\ IF ok
           THEN /\ result' = [kind |-> "path"]
                /\ pc' = "done"
           ELSE /\ result' = result
                /\ pc' = "structure"
    /\ UNCHANGED <<cfg, grid, table>>

\* lines 43-46 and 51-52: PPTableExtractor, any exception swallowed
StructureStrategy ==
    /\ UNCHANGED notChainVars
    /\ pc = "structure"
    /\ \E o \in GridOutcomes :
        /\ trace' = Append(trace, Event("strategy", 2, Outcome(o)))
        /\ grid' = IF o.tag = "raise" THEN grid ELSE o
        /\ pc' = IF o.tag /= "raise" /\ NonTrivial(o.rows)
                 THEN "export_structure" ELSE "ocr"
    /\ UNCHANGED <<cfg, table, result>>

\* lines 47-52: the export call sits inside the try of strategy 2
ExportStructure ==
    /\ UNCHANGED notChainVars
    /\ pc = "export_structure"
    /\ \E ok \in BOOLEAN :
        /\ trace' = Append(trace, Event("export", 2, IF ok THEN "ok" ELSE "raised"))
        /\ IF ok
           THEN /\ result' = [kind |-> "path"]
                /\ pc' = "done"
           ELSE /\ result' = result
                /\ pc' = "ocr"
    /\ UNCHANGED <<cfg, grid, table>>

\* lines 55-56: extract_words and words_to_table, outside any try
LineClustering ==
    /\ UNCHANGED notChainVars
    /\ pc = "ocr"
    /\ \/ /\ trace' = Append(trace, Event("strategy", 3, "raised"))
          /\ result' = [kind |-> "strategy_exception"]
          /\ pc' = "done"
          /\ table' = table
       \/ \E words \in WordLists :
            LET t == words_to_table(words, cfg.max_cols) IN
            /\ table' = t
            /\ trace' = Append(trace, Event("strategy", 3,
                                 IF NonTrivial(t) THEN "nontrivial" ELSE "trivial"))
            /\ result' = result
            /\ pc' = "export_final"
    /\ UNCHANGED <<cfg, grid>>

\* line 57: the final export, whatever the table holds
ExportFinal ==
    /\ UNCHANGED notChainVars
    /\ pc = "export_final"
    /\ \E ok \in BOOLEAN :
        /\ trace' = Append(trace, Event("export", 3, IF ok THEN "ok" ELSE "raised"))
        /\ result' = IF ok THEN [kind |-> "path"] ELSE [kind |-> "export_error"]
        /\ pc' = "done"
    /\ UNCHANGED <<cfg, grid, table>>

Next ==
    \/ SkipTemplate
    \/ TemplateStrategy
    \/ ExportTemplate
    \/ StructureStrategy
    \/ ExportStructure
    \/ LineClustering
    \/ ExportFinal

(***************************************************************************)
(* core/template_manager.py: Cell and GridSpec                             *)
(*                                                                         *)
(* The float fields x, y, w, h are exact rationals counted in units of     *)
(* 1/Den.  An optional name is <<>> for None and <<s>> for the string s.   *)
(***************************************************************************)
Den == 20

Cell(row, col, x, y, w, h, name) ==
    [row |-> row, col |-> col, x |-> x, y |-> y, w |-> w, h |-> h, name |-> name]

GridSpec(name, width, height, cells, normalized) ==
    [name |-> name, width |-> width, height |-> height,
     cells |-> cells, normalized |-> normalized]

(***************************************************************************)
(* The GUI entry points: main.py and gui/app_window.py                     *)
(*                                                                         *)
(* A worker is "started" once QThread.start() was called, "processing"     *)
(* after it emitted processing_started (main.py only), "emitted" after its *)
(* terminal signal and "done" when run() has returned.  Signals emitted on *)
(* the worker thread are queued and delivered later on the GUI thread.     *)
(***************************************************************************)
InFlight(workers) == Cardinality({ i \in DOMAIN workers : workers[i] /= "done" })

\* QThread.isRunning() of self.worker, the worker created last
IsRunning(workers) == workers /= <<>> /\ workers[Len(workers)] /= "done"

GuiIdle ==
    /\ entry = "none"
    /\ m_image_path = FALSE /\ m_output_path = FALSE /\ m_convert_btn = FALSE
    /\ m_workers = <<>> /\ m_events = <<>>
    /\ a_selected_image_path = FALSE /\ a_selected_output_dir = FALSE
    /\ a_convert_button = FALSE /\ a_select_buttons = TRUE /\ a_assisted = FALSE
    /\ a_workers = <<>> /\ a_events = <<>> /\ a_log = "none"

\* ImageToExcelApp.__init__ of either entry point: nothing selected, the
\* convert button disabled, no worker
GuiInit ==
    /\ entry \in {"main", "app_window"}
    /\ m_image_path = FALSE /\ m_output_path = FALSE /\ m_convert_btn = FALSE
    /\ m_workers = <<>> /\ m_events = <<>>
    /\ a_selected_image_path = FALSE /\ a_selected_output_dir = FALSE
    /\ a_convert_button = FALSE /\ a_select_buttons = TRUE /\ a_assisted = FALSE
    /\ a_workers = <<>> /\ a_events = <<>> /\ a_log = "none"

\* ---- main.py ----
\* select_image: a file was chosen; check_ready_to_convert sets the button
MSelectImage ==
    /\ UNCHANGED <<notGuiVars, entry, appGuiVars>>
    /\ entry = "main"
    /\ m_image_path' = TRUE
    /\ m_convert_btn' = (m_image_path' /\ m_output_path)
    /\ UNCHANGED <<m_output_path, m_workers, m_events>>

\* select_output_directory: a directory was chosen
MSelectOutput ==
    /\ UNCHANGED <<notGuiVars, entry, appGuiVars>>
    /\ entry = "main"
    /\ m_output_path' = TRUE
    /\ m_convert_btn' = (m_image_path /\ m_output_path')
    /\ UNCHANGED <<m_image_path, m_workers, m_events>>

\* convert_to_excel: a click on the enabled button; no check of a running worker
MConvert ==
    /\ UNCHANGED <<notGuiVars, entry, appGuiVars>>
    /\ entry = "main"
    /\ m_convert_btn
    /\ Len(m_workers) < MaxRuns
    /\ IF ~m_image_path \/ ~m_output_path
       THEN UNCHANGED m_workers
       ELSE m_workers' = Append(m_workers, "started")
    /\ UNCHANGED <<m_image_path, m_output_path, m_convert_btn, m_events>>

\* ImageProcessor.process_image on the worker thread: processing_started.emit()
MWorkerEmitStarted(i) ==
    /\ UNCHANGED <<notGuiVars, entry, appGuiVars>>
    /\ entry = "main"
    /\ m_workers[i] = "started"
    /\ m_workers' = [m_workers EXCEPT ![i] = "processing"]
    /\ m_events' = Append(m_events, "started")
    /\ UNCHANGED <<m_image_path, m_output_path, m_convert_btn>>

\* process_image: processing_finished.emit or processing_error.emit
MWorkerEmitTerminal(i) ==
    /\ UNCHANGED <<notGuiVars, entry, appGuiVars>>
    /\ entry = "main"
    /\ m_workers[i] = "processing"
    /\ m_workers' = [m_workers EXCEPT ![i] = "emitted"]
    /\ \E sig \in {"finished", "error"} : m_events' = Append(m_events, sig)
    /\ UNCHANGED <<m_image_path, m_output_path, m_convert_btn>>

\* OCRWorker.run returns
MWorkerExit(i) ==
    /\ UNCHANGED <<notGuiVars, entry, appGuiVars>>
    /\ entry = "main"
    /\ m_workers[i] = "emitted"
    /\ m_workers' = [m_workers EXCEPT ![i] = "done"]
    /\ UNCHANGED <<m_image_path, m_output_path, m_convert_btn, m_events>>

\* on_processing_started / on_processing_finished / on_processing_error
MDeliver ==
    /\ UNCHANGED <<notGuiVars, entry, appGuiVars>>
    /\ entry = "main"
    /\ m_events /= <<>>
    /\ m_convert_btn' = (Head(m_events) /= "started")
    /\ m_events' = Tail(m_events)
    /\ UNCHANGED <<m_image_path, m_output_path, m_workers>>

\* ---- gui/app_window.py ----
\* select_image, then update_convert_button_state
ASelectImage ==
    /\ UNCHANGED <<notGuiVars, entry, mainGuiVars>>
    /\ entry = "app_window"
    /\ a_select_buttons
    /\ a_selected_image_path' = TRUE
    /\ a_convert_button' = (a_selected_image_path' /\ a_selected_output_dir)
    /\ UNCHANGED <<a_selected_output_dir, a_select_buttons, a_assisted,
                   a_workers, a_events, a_log>>

\* select_output_directory, then update_convert_button_state
ASelectOutput ==
    /\ UNCHANGED <<notGuiVars, entry, mainGuiVars>>
    /\ entry = "app_window"
    /\ a_select_buttons
    /\ a_selected_output_dir' = TRUE
    /\ a_convert_button' = (a_selected_image_path /\ a_selected_output_dir')
    /\ UNCHANGED <<a_selected_image_path, a_select_buttons, a_assisted,
                   a_workers, a_events, a_log>>

\* the user ticks or unticks the assisted-mode checkbox
AToggleAssisted ==
    /\ UNCHANGED <<notGuiVars, entry, mainGuiVars>>
    /\ entry = "app_window"
    /\ a_assisted' = ~a_assisted
    /\ UNCHANGED <<a_selected_image_path, a_selected_output_dir, a_convert_button,
                   a_select_buttons, a_workers, a_events, a_log>>

\* convert_to_excel, with start_assisted_mode / start_normal_mode
AConvert ==
    /\ UNCHANGED <<notGuiVars, entry, mainGuiVars>>
    /\ entry = "app_window"
    /\ a_convert_button
    /\ Len(a_workers) < MaxRuns
    /\ IF ~a_selected_image_path \/ ~a_selected_output_dir
       THEN /\ a_log' = "missing"
            /\ UNCHANGED <<a_convert_button, a_select_buttons, a_workers>>
       ELSE IF IsRunning(a_workers)
       THEN /\ a_log' = "rejected"
            /\ UNCHANGED <<a_convert_button, a_select_buttons, a_workers>>
       ELSE IF a_assisted
       THEN \* synchronous on the GUI thread, always ends in reset_ui_state
            /\ a_log' = "assisted"
            /\ a_convert_button' = TRUE
            /\ a_select_buttons' = TRUE
            /\ UNCHANGED a_workers
       ELSE /\ a_log' = "started"
            /\ a_convert_button' = FALSE
            /\ a_select_buttons' = FALSE
            /\ a_workers' = Append(a_workers, "started")
    /\ UNCHANGED <<a_selected_image_path, a_selected_output_dir, a_assisted, a_events>>

\* OCRWorker.run: finished.emit or error.emit
AWorkerEmitTerminal(i) ==
    /\ UNCHANGED <<notGuiVars, entry, mainGuiVars>>
    /\ entry = "app_window"
    /\ a_workers[i] = "started"
    /\ a_workers' = [a_workers EXCEPT ![i] = "emitted"]
    /\ \E sig \in {"finished", "error"} : a_events' = Append(a_events, sig)
    /\ UNCHANGED <<a_selected_image_path, a_selected_output_dir, a_convert_button,
                   a_select_buttons, a_assisted, a_log>>

\* OCRWorker.run returns
AWorkerExit(i) ==
    /\ UNCHANGED <<notGuiVars, entry, mainGuiVars>>
    /\ entry = "app_window"
    /\ a_workers[i] = "emitted"
    /\ a_workers' = [a_workers EXCEPT ![i] = "done"]
    /\ UNCHANGED <<a_selected_image_path, a_selected_output_dir, a_convert_button,
                   a_select_buttons, a_assisted, a_events, a_log>>

\* on_conversion_finished / on_conversion_error: buttons enabled again
ADeliver ==
    /\ UNCHANGED <<notGuiVars, entry, mainGuiVars>>
    /\ entry = "app_window"
    /\ a_events /= <<>>
    /\ a_events' = Tail(a_events)
    /\ a_convert_button' = TRUE
    /\ a_select_buttons' = TRUE
    /\ UNCHANGED <<a_selected_image_path, a_selected_output_dir, a_assisted,
                   a_workers, a_log>>

GuiNext ==
    \/ MSelectImage
    \/ MSelectOutput
    \/ MConvert
    \/ \E i \in 1..MaxRuns : i \in DOMAIN m_workers /\ MWorkerEmitStarted(i)
    \/ \E i \in 1..MaxRuns : i \in DOMAIN m_workers /\ MWorkerEmitTerminal(i)
    \/ \E i \in 1..MaxRuns : i \in DOMAIN m_workers /\ MWorkerExit(i)
    \/ MDeliver
    \/ ASelectImage
    \/ ASelectOutput
    \/ AToggleAssisted
    \/ AConvert
    \/ \E i \in 1..MaxRuns : i \in DOMAIN a_workers /\ AWorkerEmitTerminal(i)
    \/ \E i \in 1..MaxRuns : i \in DOMAIN a_workers /\ AWorkerExit(i)
    \/ ADeliver

\* C6: at most one pipeline run (worker thread) is in flight at any time, in
\* both GUI entry points; a convert request issued while a run is in flight
\* starts no second worker.
C6_AtMostOneRunInFlight ==
    /\ InFlight(m_workers) <= 1
    /\ InFlight(a_workers) <= 1

\* the guarded entry point alone (gui/app_window.py) keeps the bound
AppWindowAtMostOneRun == InFlight(a_workers) <= 1
(***************************************************************************)
(* core/grid_extractor.py: GridExtractor.crop_cells                        *)
(***************************************************************************)
DefaultPad == 6

\* lines 36-45: the cell's rectangle in pixels, int() truncating toward zero
PixelBounds(cell, normalized, img_w, img_h) ==
    IF normalized
    THEN [x1 |-> PyInt(cell.x * img_w, Den),
          y1 |-> PyInt(cell.y * img_h, Den),
          x2 |-> PyInt((cell.x + cell.w) * img_w, Den),
          y2 |-> PyInt((cell.y + cell.h) * img_h, Den)]
    ELSE [x1 |-> PyInt(cell.x, Den),
          y1 |-> PyInt(cell.y, Den),
          x2 |-> PyInt(cell.x + cell.w, Den),
          y2 |-> PyInt(cell.y + cell.h, Den)]

\* lines 48-51: pad applied, low edges clamped at 0, high edges at the size
PaddedBounds(b, pad, img_w, img_h) ==
    [x1 |-> Max(0, b.x1 - pad),
     y1 |-> Max(0, b.y1 - pad),
     x2 |-> Min(img_w, b.x2 + pad),
     y2 |-> Min(img_h, b.y2 + pad)]

\* one axis of the numpy slice img[start:stop] over n pixels: a negative
\* index counts from the end, then both are clamped to 0..n
SliceIndex(k, n) == IF k < 0 THEN Max(0, k + n) ELSE Min(k, n)
Slice(start, stop, n) ==
    { i \in 0..(n - 1) : SliceIndex(start, n) <= i /\ i < SliceIndex(stop, n) }

\* line 54: crop = img[y1:y2, x1:x2], as the pixels it holds
CropOf(b, img_w, img_h) ==
    [cols |-> Slice(b.x1, b.x2, img_w), rows |-> Slice(b.y1, b.y2, img_h)]

\* crop.size
CropSize(c) == Cardinality(c.cols) * Cardinality(c.rows)

CellBounds(cell, spec, pad, img) ==
    PaddedBounds(PixelBounds(cell, spec.normalized, img.w, img.h), pad, img.w, img.h)

\* lines 31-60: the loop over spec.cells; empty crops are left out
RECURSIVE CropLoop(_, _, _, _, _)
CropLoop(i, spec, pad, img, crops) ==
    IF i > Len(spec.cells) THEN crops
    ELSE LET cell == spec.cells[i]
             crop == CropOf(CellBounds(cell, spec, pad, img), img.w, img.h)
         IN CropLoop(i + 1, spec, pad, img,
                     IF CropSize(crop) > 0
                     THEN Append(crops, [idx |-> i, cell |-> cell, crop |-> crop])
                     ELSE crops)

crop_cells(spec, pad, img) == CropLoop(1, spec, pad, img, <<>>)

\* lines 78-87: the pixel bounds extract_single_cell computes
ExtractPixelBounds(cell, normalized, img_w, img_h) ==
    IF normalized
    THEN [x1 |-> PyInt(cell.x * img_w, Den),
          y1 |-> PyInt(cell.y * img_h, Den),
          x2 |-> PyInt((cell.x + cell.w) * img_w, Den),
          y2 |-> PyInt((cell.y + cell.h) * img_h, Den)]
    ELSE [x1 |-> PyInt(cell.x, Den),
          y1 |-> PyInt(cell.y, Den),
          x2 |-> PyInt(cell.x + cell.w, Den),
          y2 |-> PyInt(cell.y + cell.h, Den)]

\* extract_single_cell padding only the low edges
ExtractPaddedLowOnly(b, pad, img_w, img_h) ==
    [x1 |-> Max(0, b.x1 - pad),
     y1 |-> Max(0, b.y1 - pad),
     x2 |-> Min(img_w, b.x2),
     y2 |-> Min(img_h, b.y2)]

\* lines 89-92: pad and clamps of extract_single_cell
ExtractPaddedBounds(b, pad, img_w, img_h) ==
    [x1 |-> Max(0, b.x1 - pad),
     y1 |-> Max(0, b.y1 - pad),
     x2 |-> Min(img_w, b.x2 + pad),
     y2 |-> Min(img_h, b.y2 + pad)]

\* lines 62-93: extract_single_cell returns img[y1:y2, x1:x2], empty or not
extract_single_cell(spec, pad, img, cell) ==
    CropOf(ExtractPaddedBounds(ExtractPixelBounds(cell, spec.normalized, img.w, img.h),
                               pad, img.w, img.h),
           img.w, img.h)

\* cell geometries: inside the image, across an edge, wholly outside on each
\* side; multiples of Den/4, for which float arithmetic is exact
CropCellPool ==
    { Cell(1, 1, xw[1], yh[1], xw[2], yh[2], <<>>) :
        xw \in { <<-60, 0>>, <<-60, 15>>, <<-25, 40>>, <<0, 15>>, <<0, 40>>,
                 <<10, 15>>, <<30, 40>>, <<100, 15>> },
        yh \in { <<-60, 15>>, <<0, 15>>, <<100, 15>> } }
Pads == (0..MaxPad) \cup {DefaultPad}
ImageShapes == { [w |-> iw, h |-> ih] : iw \in 2..MaxImg, ih \in {2, MaxImg} }

CropIdle ==
    /\ g_pc = "idle"
    /\ g_spec = GridSpec("none", 1, 1, <<>>, FALSE)
    /\ g_pad = DefaultPad
    /\ g_img = [w |-> 1, h |-> 1]
    /\ g_bounds = <<>>
    /\ g_crops = <<>>
    /\ g_singles = <<>>

\* GridExtractor(spec, pad) constructed, an aligned image at hand
CropInit ==
    /\ g_pc = "ready"
    /\ \E cells \in SeqsUpTo(CropCellPool, MaxCells), n \in BOOLEAN :
          g_spec = GridSpec("grid", 1280, 720, cells, n)
    /\ g_pad \in Pads
    /\ g_img \in ImageShapes
    /\ g_bounds = <<>>
    /\ g_crops = <<>>
    /\ g_singles = <<>>

CropCells ==
    /\ UNCHANGED notCropVars
    /\ g_pc = "ready"
    /\ g_bounds' = [i \in 1..Len(g_spec.cells) |->
                       CellBounds(g_spec.cells[i], g_spec, g_pad, g_img)]
    /\ g_crops' = crop_cells(g_spec, g_pad, g_img)
    /\ g_pc' = "cropped"
    /\ UNCHANGED <<g_spec, g_pad, g_img, g_singles>>

\* extract_single_cell(img, cell) for every cell of the GridSpec
ExtractSingleCells ==
    /\ UNCHANGED notCropVars
    /\ g_pc = "cropped"
    /\ g_singles' = [i \in 1..Len(g_spec.cells) |->
                        extract_single_cell(g_spec, g_pad, g_img, g_spec.cells[i])]
    /\ g_pc' = "extracted"
    /\ UNCHANGED <<g_spec, g_pad, g_img, g_bounds, g_crops>>

CropNext == CropCells \/ ExtractSingleCells

\* the part of the image inside the cell's rectangle expanded by pad
ExpectedCrop(cell) ==
    LET b == PixelBounds(cell, g_spec.normalized, g_img.w, g_img.h) IN
    [cols |-> { i \in 0..(g_img.w - 1) : b.x1 - g_pad <= i /\ i < b.x2 + g_pad },
     rows |-> { j \in 0..(g_img.h - 1) : b.y1 - g_pad <= j /\ j < b.y2 + g_pad }]

\* C7: for every cell geometry, pad and image size the crop bounds satisfy
\* 0 <= x1 <= x2 <= image_width and 0 <= y1 <= y2 <= image_height.
C7_CropBoundsClamped ==
    \A i \in DOMAIN g_bounds :
        /\ 0 <= g_bounds[i].x1 /\ g_bounds[i].x1 <= g_bounds[i].x2
        /\ g_bounds[i].x2 <= g_img.w
        /\ 0 <= g_bounds[i].y1 /\ g_bounds[i].y1 <= g_bounds[i].y2
        /\ g_bounds[i].y2 <= g_img.h

\* C8: crop_cells returns only non-empty crops, each exactly the part of the
\* image inside the cell's padded rectangle; a cell whose padded rectangle
\* does not overlap the image contributes no entry.
C8_CropsAreThePaddedCells ==
    g_pc = "cropped" =>
        /\ \A k \in DOMAIN g_crops :
              /\ CropSize(g_crops[k].crop) > 0
              /\ g_crops[k].crop = ExpectedCrop(g_crops[k].cell)
        /\ \A i \in DOMAIN g_spec.cells :
              CropSize(ExpectedCrop(g_spec.cells[i])) = 0
                 => \A k \in DOMAIN g_crops : g_crops[k].idx /= i

\* C25: extract_single_cell applies the bounds logic of crop_cells: for
\* every cell whose crop is non-empty it returns the crop that crop_cells
\* pairs with that cell; the cells crop_cells leaves out are exactly those
\* for which extract_single_cell returns an empty region.
C25_SingleCellMatchesCropCells ==
    g_pc = "extracted" =>
        /\ \A k \in DOMAIN g_crops :
            /\ g_singles[g_crops[k].idx] = g_crops[k].crop
            /\ g_crops[k].cell = g_spec.cells[g_crops[k].idx]
        /\ \A i \in DOMAIN g_spec.cells :
            (CropSize(g_singles[i]) > 0) <=> (\E k \in DOMAIN g_crops : g_crops[k].idx = i)

\* of two cells one was dropped by crop_cells and came back empty from
\* extract_single_cell, the other came back as the same non-empty region
C25_Witness ==
    /\ g_pc = "extracted"
    /\ Len(g_spec.cells) = 2 /\ Len(g_crops) = 1
    /\ g_crops[1].idx = 2
    /\ CropSize(g_singles[1]) = 0
    /\ CropSize(g_singles[2]) > 1
    /\ g_pad > 0

(***************************************************************************)
(* core/template_manager.py: TemplateManager.save / load                   *)
(*                                                                         *)
(* A stored file is the JSON object json.dumps wrote: a record of JSON     *)
(* values.  A JSON number keeps whether it was written as an integer or    *)
(* with a fraction; null, true/false and strings are distinct kinds.       *)
(***************************************************************************)
JInt(n) == [t |-> "int", v |-> n, s |-> ""]
JFloat(v) == [t |-> "float", v |-> v, s |-> ""]      \* v in units of 1/Den
JBool(b) == [t |-> "bool", v |-> IF b THEN 1 ELSE 0, s |-> ""]
JStr(str) == [t |-> "str", v |-> 0, s |-> str]
JNull == [t |-> "null", v |-> 0, s |-> ""]

\* json.dumps of an optional string / json.loads back
JOptStr(name) == IF name = <<>> THEN JNull ELSE JStr(name[1])
PyOptStr(j) == IF j.t = "null" THEN <<>> ELSE <<j.s>>

\* bool(value) of a loaded JSON value
PyBool(j) ==
    IF j.t = "str" THEN j.s /= ""
    ELSE IF j.t = "null" THEN FALSE
    ELSE j.v /= 0

\* int(value) of a loaded JSON number: a fraction is truncated
PyIntOf(j) == IF j.t = "float" THEN PyInt(j.v, Den) ELSE j.v

\* a loaded JSON number as a float field of Cell, in units of 1/Den
PyFloatOf(j) == IF j.t = "int" THEN j.v * Den ELSE j.v

\* line 40: cell.__dict__ as json.dumps writes it
CellToJson(c) ==
    [row |-> JInt(c.row), col |-> JInt(c.col),
     x |-> JFloat(c.x), y |-> JFloat(c.y), w |-> JFloat(c.w), h |-> JFloat(c.h),
     name |-> JOptStr(c.name)]

\* line 57: Cell(**c)
CellFromJson(j) ==
    Cell(j.row.v, j.col.v, PyFloatOf(j.x), PyFloatOf(j.y), PyFloatOf(j.w),
         PyFloatOf(j.h), PyOptStr(j.name))

\* line 56, "retro-compat": a record as stored before the "normalized" key
\* existed
LegacyPayload(spec) ==
    [name |-> JStr(spec.name),
     width |-> JInt(spec.width),
     height |-> JInt(spec.height),
     cells |-> [i \in 1..Len(spec.cells) |-> CellToJson(spec.cells[i])]]

\* save() forgetting the "normalized" key
SavePayloadNoFlag(spec) == LegacyPayload(spec)

\* lines 35-41: the payload save() writes
SavePayload(spec) ==
    [name |-> JStr(spec.name),
     width |-> JInt(spec.width),
     height |-> JInt(spec.height),
     normalized |-> JBool(spec.normalized),
     cells |-> [i \in 1..Len(spec.cells) |-> CellToJson(spec.cells[i])]]

\* load() reading a missing flag as the dataclass default
LoadNormalizedDefaultTrue(data) ==
    IF "normalized" \in DOMAIN data THEN PyBool(data.normalized) ELSE TRUE

\* line 56: bool(data.get("normalized", False))
LoadNormalized(data) ==
    IF "normalized" \in DOMAIN data THEN PyBool(data.normalized) ELSE FALSE

\* lines 55-64: the GridSpec built from a stored record
LoadRecord(data) ==
    GridSpec(data.name.s, PyIntOf(data.width), PyIntOf(data.height),
             [i \in 1..Len(data.cells) |-> CellFromJson(data.cells[i])],
             LoadNormalized(data))

\* line 26: a GridSpec built without the flag gets normalized = True
GridSpecDefaultNormalized == TRUE

\* lines 66-92: the built-in template, 3 rows x 4 columns, normalized
DefaultColumn(col) ==
    IF col = 1 THEN [x |-> 2, w |-> 4, name |-> "Etiqueta"]
    ELSE IF col = 2 THEN [x |-> 7, w |-> 4, name |-> "DXO"]
    ELSE IF col = 3 THEN [x |-> 12, w |-> 4, name |-> "Marca"]
    ELSE [x |-> 17, w |-> 2, name |-> "Peso"]
DefaultRowY(row) == IF row = 1 THEN 2 ELSE IF row = 2 THEN 6 ELSE 10
DefaultTemplate ==
    GridSpec("default_template", 1280, 720,
             [i \in 1..12 |->
                LET row == ((i - 1) \div 4) + 1
                    col == ((i - 1) % 4) + 1
                IN Cell(row, col, DefaultColumn(col).x, DefaultRowY(row),
                        DefaultColumn(col).w, 3, <<DefaultColumn(col).name>>)],
             GridSpecDefaultNormalized)

TemplateNames == {"tpl", "legacy", "default_template"}
NoFile == [absent |-> TRUE]
NoSpec == GridSpec("", 0, 0, <<>>, FALSE)
Exists(files, name) == files[name] /= NoFile

TplCellPool ==
    { Cell(1, 1, 2, 2, 4, 3, <<"Peso">>), Cell(3, 2, 128, 72, 256, 108, <<>>) }
SpecsToSave ==
    { GridSpec(n, 640, 480, cells, nrm) :
        n \in TemplateNames,
        cells \in SeqsUpTo(TplCellPool, MaxTplCells), nrm \in BOOLEAN }

\* records written before the "normalized" key existed (absolute pixels)
LegacyRecords ==
    { LegacyPayload(GridSpec("legacy", 1280, 720, cells, FALSE)) :
        cells \in { <<>>, << Cell(1, 1, 128, 72, 256, 108, <<"Peso">>) >> } }

NoCall == [op |-> "none", name |-> "", tag |-> "none", spec |-> NoSpec,
           saved |-> NoSpec, hadSaved |-> FALSE, hadFlag |-> FALSE, existed |-> FALSE]

TplIdle ==
    /\ t_files = [n \in TemplateNames |-> NoFile]
    /\ t_saved = [n \in TemplateNames |-> NoSpec]
    /\ t_last = NoCall
    /\ t_ops = 0

\* TemplateManager(templates_dir): the directory exists; it may hold a
\* record stored by a version that did not write "normalized"
TplInit ==
    /\ \E old \in {NoFile} \cup LegacyRecords :
          t_files = [n \in TemplateNames |-> IF n = "legacy" THEN old ELSE NoFile]
    /\ t_saved = [n \in TemplateNames |-> NoSpec]
    /\ t_last = NoCall
    /\ t_ops = 0

\* lines 33-43: save(spec)
Save(spec) ==
    /\ UNCHANGED notTplVars
    /\ t_ops < MaxOps
    /\ t_files' = [t_files EXCEPT ![spec.name] = SavePayload(spec)]
    /\ t_saved' = [t_saved EXCEPT ![spec.name] = spec]
    /\ t_last' = [op |-> "save", name |-> spec.name, tag |-> "ok", spec |-> spec,
                  saved |-> spec, hadSaved |-> TRUE, hadFlag |-> TRUE,
                  existed |-> Exists(t_files, spec.name)]
    /\ t_ops' = t_ops + 1

\* lines 45-64: load(name) of a stored record
LoadExisting(name) ==
    /\ UNCHANGED notTplVars
    /\ t_ops < MaxOps
    /\ Exists(t_files, name)
    /\ t_last' = [op |-> "load", name |-> name, tag |-> "ok",
                  spec |-> LoadRecord(t_files[name]),
                  saved |-> t_saved[name], hadSaved |-> t_saved[name] /= NoSpec,
                  hadFlag |-> "normalized" \in DOMAIN t_files[name],
                  existed |-> TRUE]
    /\ t_ops' = t_ops + 1
    /\ UNCHANGED <<t_files, t_saved>>

\* _create_default_template returning the built-in template without save()
LoadDefaultNotPersisted ==
    /\ UNCHANGED notTplVars
    /\ t_ops < MaxOps
    /\ ~Exists(t_files, "default_template")
    /\ t_last' = [op |-> "load", name |-> "default_template", tag |-> "ok",
                  spec |-> DefaultTemplate, saved |-> NoSpec, hadSaved |-> FALSE,
                  hadFlag |-> FALSE, existed |-> FALSE]
    /\ t_ops' = t_ops + 1
    /\ UNCHANGED <<t_files, t_saved>>

\* lines 49-51, 66-97: load("default_template") without a stored record
LoadDefault ==
    /\ UNCHANGED notTplVars
    /\ t_ops < MaxOps
    /\ ~Exists(t_files, "default_template")
    /\ t_files' = [t_files EXCEPT !["default_template"] = SavePayload(DefaultTemplate)]
    /\ t_saved' = [t_saved EXCEPT !["default_template"] = DefaultTemplate]
    /\ t_last' = [op |-> "load", name |-> "default_template", tag |-> "ok",
                  spec |-> DefaultTemplate, saved |-> NoSpec, hadSaved |-> FALSE,
                  hadFlag |-> FALSE, existed |-> FALSE]
    /\ t_ops' = t_ops + 1

\* lines 49-53: load(name) of a missing record: FileNotFoundError
LoadMissing(name) ==
    /\ UNCHANGED notTplVars
    /\ t_ops < MaxOps
    /\ ~Exists(t_files, name)
    /\ name /= "default_template"
    /\ t_last' = [op |-> "load", name |-> name, tag |-> "FileNotFoundError",
                  spec |-> NoSpec, saved |-> NoSpec, hadSaved |-> FALSE,
                  hadFlag |-> FALSE, existed |-> FALSE]
    /\ t_ops' = t_ops + 1
    /\ UNCHANGED <<t_files, t_saved>>

TplNext ==
    \/ \E spec \in SpecsToSave : Save(spec)
    \/ \E name \in TemplateNames : LoadExisting(name)
    \/ LoadDefault
    \/ \E name \in TemplateNames : LoadMissing(name)

\* C9: load(s.name) performed after save(s) returns a GridSpec equal to s,
\* cells in the same order and the same normalized flag.
C9_SaveLoadRoundTrip ==
    (t_last.op = "load" /\ t_last.hadSaved)
        => t_last.tag = "ok" /\ t_last.spec = t_last.saved

\* a normalized GridSpec with two cells was saved and loaded back
C9_Witness ==
    /\ t_last.op = "load" /\ t_last.hadSaved
    /\ t_last.saved.normalized
    /\ Len(t_last.saved.cells) = 2
    /\ t_last.saved.cells[1] /= t_last.saved.cells[2]

\* C10: loading a stored record without a "normalized" field succeeds with
\* normalized = false, not with the default true of a GridSpec built in code.
C10_MissingFlagMeansAbsolute ==
    (t_last.op = "load" /\ t_last.existed /\ ~t_last.hadFlag)
        => /\ t_last.tag = "ok"
           /\ t_last.spec.normalized = FALSE
           /\ t_last.spec.normalized /= GridSpecDefaultNormalized

\* a record without the field was loaded
C10_Witness ==
    /\ t_last.op = "load" /\ t_last.existed /\ ~t_last.hadFlag
    /\ t_last.name = "legacy"
    /\ Len(t_last.spec.cells) = 1

\* the (row, col) pairs a GridSpec declares, and whether each occurs once
CellSlots(spec) == { <<spec.cells[i].row, spec.cells[i].col>> : i \in DOMAIN spec.cells }

\* C11: load of a missing record: "default_template" never fails, returns the
\* built-in template (12 cells, rows 1..3 x columns 1..4, normalized) and
\* persists it, so that the next load("default_template") returns an equal
\* GridSpec; any other missing name fails with a not-found error and leaves
\* the store unchanged.
C11_MissingRecordDefaultOrNotFound ==
    [][ /\ (t_last'.op = "load" /\ ~t_last'.existed /\ t_last'.name = "default_template")
            => /\ t_last'.tag = "ok"
               /\ Len(t_last'.spec.cells) = 12
               /\ CellSlots(t_last'.spec) = (1..3) \X (1..4)
               /\ t_last'.spec.normalized = TRUE
               /\ Exists(t_files', "default_template")
               /\ \A n \in TemplateNames \ {"default_template"} : t_files'[n] = t_files[n]
        /\ (t_last'.op = "load" /\ ~t_last'.existed /\ t_last'.name /= "default_template")
            => /\ t_last'.tag = "FileNotFoundError"
               /\ ~Exists(t_files, t_last'.name)
               /\ t_files' = t_files
        /\ (/\ t_last.op = "load" /\ ~t_last.existed /\ t_last.name = "default_template"
            /\ t_ops' = t_ops + 1
            /\ t_last'.op = "load" /\ t_last'.name = "default_template")
            => /\ t_last'.existed
               /\ t_last'.tag = "ok"
               /\ t_last'.spec = t_last.spec
      ]_vars

\* the built-in template was synthesized by one load and read back by the next
C11_Witness ==
    /\ t_ops = 2
    /\ t_last.op = "load" /\ t_last.name = "default_template" /\ t_last.existed
    /\ t_last.saved = DefaultTemplate
    /\ t_last.spec.normalized

\* a load of another missing name failed
C11_WitnessNotFound ==
    /\ t_last.op = "load" /\ t_last.tag = "FileNotFoundError" /\ t_last.name = "tpl"

(***************************************************************************)
(* core/ocr_engine.py: OCREngine.read_cell and the lazy PaddleOCR instance *)
(*                                                                         *)
(* cv2 and PaddleOCR are outside the program: how _preprocess_cell, the    *)
(* PaddleOCR constructor and ocr.ocr() end is chosen by the environment.   *)
(* The k-th PaddleOCR instance constructed is the number k.                *)
(***************************************************************************)
NoOcr == 0

\* _get_ocr with the instance rebuilt on every call
get_ocr_rebuilding(paddle_ocr, ctor, built) ==
    IF ctor = "ok"
    THEN [raised |-> FALSE, ocr |-> built + 1, built |-> built + 1]
    ELSE [raised |-> TRUE, ocr |-> paddle_ocr, built |-> built]

\* lines 20-32: _get_ocr; ctor is how `from paddleocr import PaddleOCR` and
\* PaddleOCR(...) end
get_ocr(paddle_ocr, ctor, built) ==
    IF paddle_ocr = NoOcr
    THEN IF ctor = "ok"
         THEN [raised |-> FALSE, ocr |-> built + 1, built |-> built + 1]
         ELSE [raised |-> TRUE, ocr |-> NoOcr, built |-> built]
    ELSE [raised |-> FALSE, ocr |-> paddle_ocr, built |-> built]

\* what ocr.ocr() hands back: None, or a list of pages; a page is None or a
\* list of detections, of which only the text is read
OcrNone == [none |-> TRUE, pages |-> <<>>]
OcrPages(pages) == [none |-> FALSE, pages |-> pages]
PageNone == [none |-> TRUE, texts |-> <<>>]
Page(texts) == [none |-> FALSE, texts |-> texts]

\* lines 52-58: the stripped non-blank texts of every page, in order
RECURSIVE TextParts(_)
TextParts(pages) ==
    IF pages = <<>> THEN <<>>
    ELSE LET kept == SelectSeq(Head(pages).texts, LAMBDA t : t /= <<>> /\ Strip(t) /= <<>>)
         IN [i \in 1..Len(kept) |-> Strip(kept[i])] \o TextParts(Tail(pages))

\* lines 52-60 (result): iterating a page that is None raises TypeError
ExtractText(ocr_result) ==
    IF ocr_result.none \/ ocr_result.pages = <<>> THEN [raised |-> FALSE, text |-> <<>>]
    ELSE IF \E i \in DOMAIN ocr_result.pages : ocr_result.pages[i].none
         THEN [raised |-> TRUE, text |-> <<>>]
         ELSE [raised |-> FALSE, text |-> JoinSpace(TextParts(ocr_result.pages))]

CallRecord(raised, failed, text, ocr, built, used) ==
    [raised |-> raised, failed |-> failed, text |-> text,
     ocr |-> ocr, built |-> built, used |-> used]

\* lines 44-60: the body of the try block; `used` is the instance ocr.ocr()
\* was called on, NoOcr when the call was not reached
ReadCellBody(paddle_ocr, built, pre, ctor, call, ocr_result) ==
    IF pre = "raise"
    THEN CallRecord(TRUE, TRUE, <<>>, paddle_ocr, built, NoOcr)
    ELSE LET g == get_ocr(paddle_ocr, ctor, built) IN
         IF g.raised THEN CallRecord(TRUE, TRUE, <<>>, g.ocr, g.built, NoOcr)
         ELSE IF call = "raise" THEN CallRecord(TRUE, TRUE, <<>>, g.ocr, g.built, g.ocr)
         ELSE LET e == ExtractText(ocr_result) IN
              CallRecord(e.raised, e.raised, e.text, g.ocr, g.built, g.ocr)

\* read_cell without its except clause
ReadCellNoCatch(paddle_ocr, built, pre, ctor, call, ocr_result) ==
    ReadCellBody(paddle_ocr, built, pre, ctor, call, ocr_result)

\* lines 34-64: read_cell; `except Exception` returns ""
read_cell(paddle_ocr, built, pre, ctor, call, ocr_result) ==
    LET b == ReadCellBody(paddle_ocr, built, pre, ctor, call, ocr_result) IN
    IF b.raised THEN [b EXCEPT !.raised = FALSE, !.text = <<>>] ELSE b

PreOutcomes == {"ok", "raise"}
CtorOutcomes == {"ok", "ImportError", "raise"}
CallOutcomes == {"ok", "raise"}
OcrResults ==
    { OcrNone, OcrPages(<<>>), OcrPages(<<PageNone>>),
      OcrPages(<<Page(<<<<"a">>>>)>>),
      OcrPages(<<Page(<<<<" ", "a", " ">>, <<>>, <<" ">>>>), Page(<<<<"b">>>>)>>) }

OcrIdle ==
    /\ o_paddle_ocr = NoOcr
    /\ o_built = 0
    /\ o_log = <<>>

\* lines 16-18: __init__
OcrInit == OcrIdle

\* one read_cell call
ReadCell ==
    /\ UNCHANGED notOcrVars
    /\ Len(o_log) < MaxReads
    /\ \E pre \in PreOutcomes, ctor \in CtorOutcomes, call \in CallOutcomes,
          ocr_result \in OcrResults :
        LET r == read_cell(o_paddle_ocr, o_built, pre, ctor, call, ocr_result) IN
        /\ o_paddle_ocr' = r.ocr
        /\ o_built' = r.built
        /\ o_log' = Append(o_log, r)

OcrNext == ReadCell

\* C12: read_cell never raises: whatever fails inside it (preprocessing,
\* constructing the OCR capability, the OCR call) it returns the empty text.
C12_ReadCellNeverRaises ==
    \A i \in DOMAIN o_log :
        /\ ~o_log[i].raised
        /\ o_log[i].failed => o_log[i].text = <<>>

\* a call failed before any instance existed, the next failed after its
\* instance was built, and the third call still read the text
C12_Witness ==
    /\ Len(o_log) = 3
    /\ o_log[1].failed /\ o_log[1].ocr = NoOcr
    /\ o_log[2].failed /\ o_log[2].used /= NoOcr
    /\ ~o_log[3].failed /\ o_log[3].text = <<"a", " ", "b">>

\* C13: over the read_cell calls on one OCREngine, the OCR capability is not
\* constructed before the first call, is successfully constructed at most
\* once, and every later call reuses that instance.
C13_LazySingleOcrInstance ==
    /\ o_log = <<>> => (o_paddle_ocr = NoOcr /\ o_built = 0)
    /\ o_built <= 1
    /\ \A i \in DOMAIN o_log : \A j \in DOMAIN o_log :
        (i < j /\ o_log[i].ocr /= NoOcr) =>
            /\ o_log[j].ocr = o_log[i].ocr
            /\ o_log[j].used \in {NoOcr, o_log[i].ocr}
    /\ o_log /= <<>> => o_paddle_ocr = o_log[Len(o_log)].ocr

\* the instance built by the second call was used again by the third
C13_Witness ==
    /\ Len(o_log) = 3
    /\ o_log[1].ocr = NoOcr
    /\ o_log[2].ocr = 1 /\ o_log[2].used = 1
    /\ o_log[3].used = 1
    /\ o_built = 1

(***************************************************************************)
(* core/postprocess.py: postprocess_by_column                              *)
(*                                                                         *)
(* The regular expressions are computed on ASCII texts: \w is a letter, a  *)
(* digit or "_", \d a digit, \s a blank, tab or newline.                   *)
(***************************************************************************)
LowerLetters == <<"a", "b", "c", "d", "e", "f", "g", "h", "i", "j", "k", "l", "m",
                  "n", "o", "p", "q", "r", "s", "t", "u", "v", "w", "x", "y", "z">>
UpperLetters == <<"A", "B", "C", "D", "E", "F", "G", "H", "I", "J", "K", "L", "M",
                  "N", "O", "P", "Q", "R", "S", "T", "U", "V", "W", "X", "Y", "Z">>
IsLower(ch) == \E i \in DOMAIN LowerLetters : LowerLetters[i] = ch
IsUpper(ch) == \E i \in DOMAIN UpperLetters : UpperLetters[i] = ch
IsDigit(ch) == ch \in {"0", "1", "2", "3", "4", "5", "6", "7", "8", "9"}
IsWordChar(ch) == IsLower(ch) \/ IsUpper(ch) \/ IsDigit(ch) \/ ch = "_"
IsWhite(ch) == ch \in {" ", "\t", "\n"}

\* str.upper() and str.lower(), one character
UpperChar(ch) ==
    IF IsLower(ch) THEN UpperLetters[CHOOSE i \in DOMAIN LowerLetters : LowerLetters[i] = ch]
    ELSE ch
LowerChar(ch) ==
    IF IsUpper(ch) THEN LowerLetters[CHOOSE i \in DOMAIN UpperLetters : UpperLetters[i] = ch]
    ELSE ch
Upper(t) == [i \in 1..Len(t) |-> UpperChar(t[i])]
Lower(t) == [i \in 1..Len(t) |-> LowerChar(t[i])]

\* re.sub(r'\s+', ' ', text)
RECURSIVE CollapseWhite(_)
CollapseWhite(t) ==
    IF t = <<>> THEN <<>>
    ELSE IF IsWhite(Head(t))
         THEN IF Len(t) > 1 /\ IsWhite(t[2]) THEN CollapseWhite(Tail(t))
              ELSE <<" ">> \o CollapseWhite(Tail(t))
         ELSE <<Head(t)>> \o CollapseWhite(Tail(t))

\* lines 42-51: _clean_text
clean_text(text) ==
    LET kept == SelectSeq(text, LAMBDA ch : IsWordChar(ch) \/ IsWhite(ch)
                                            \/ ch = "-" \/ ch = ".")
    IN Strip(CollapseWhite(kept))

\* the end (exclusive) of the longest run of digits that starts at i
RECURSIVE DigitsEnd(_, _)
DigitsEnd(t, i) == IF i <= Len(t) /\ IsDigit(t[i]) THEN DigitsEnd(t, i + 1) ELSE i
RECURSIVE WhiteEnd(_, _)
WhiteEnd(t, i) == IF i <= Len(t) /\ IsWhite(t[i]) THEN WhiteEnd(t, i + 1) ELSE i

\* \d+(?:\.\d+)? matched greedily at i, where t[i] is a digit
NumberEnd(t, i) ==
    LET j == DigitsEnd(t, i) IN
    IF j + 1 <= Len(t) /\ t[j] = "." /\ IsDigit(t[j + 1]) THEN DigitsEnd(t, j + 1) ELSE j

\* (?:kg|g|lb|lbs)? under re.IGNORECASE at i: the first alternative that fits
StartsWith(t, i, u) ==
    /\ i + Len(u) - 1 <= Len(t)
    /\ \A k \in DOMAIN u : LowerChar(t[i + k - 1]) = u[k]
UnitEnd(t, i) ==
    IF StartsWith(t, i, <<"k", "g">>) THEN i + 2
    ELSE IF StartsWith(t, i, <<"g">>) THEN i + 1
    ELSE IF StartsWith(t, i, <<"l", "b">>) THEN i + 2
    ELSE IF StartsWith(t, i, <<"l", "b", "s">>) THEN i + 3
    ELSE i

\* re.search of line 57: the leftmost match, as [found, g0, g1]
RECURSIVE WeightSearch(_, _)
WeightSearch(t, i) ==
    IF i > Len(t) THEN [found |-> FALSE, g0 |-> <<>>, g1 |-> <<>>]
    ELSE IF IsDigit(t[i])
         THEN LET j == NumberEnd(t, i) IN
              [found |-> TRUE, g1 |-> SubSeq(t, i, j - 1),
               g0 |-> SubSeq(t, i, UnitEnd(t, WhiteEnd(t, j)) - 1)]
         ELSE WeightSearch(t, i + 1)

\* re.findall(r'\d+(?:\.\d+)?', text) of line 62, from i on
RECURSIVE FindNumbers(_, _)
FindNumbers(t, i) ==
    IF i > Len(t) THEN <<>>
    ELSE IF IsDigit(t[i])
         THEN <<SubSeq(t, i, NumberEnd(t, i) - 1)>> \o FindNumbers(t, NumberEnd(t, i))
         ELSE FindNumbers(t, i + 1)

\* _process_weight returning the whole match, unit included
process_weight_whole_match(text) ==
    LET weight_match == WeightSearch(text, 1) IN
    IF weight_match.found THEN weight_match.g0 ELSE text

\* lines 54-63: _process_weight
process_weight(text) ==
    LET weight_match == WeightSearch(text, 1) IN
    IF weight_match.found THEN weight_match.g1
    ELSE LET numbers == FindNumbers(text, 1) IN
         IF numbers /= <<>> THEN numbers[1] ELSE text

\* _process_code removing only the first character that is not \w
RECURSIVE DropFirstNonWord(_)
DropFirstNonWord(t) ==
    IF t = <<>> THEN <<>>
    ELSE IF ~IsWordChar(Head(t)) THEN Tail(t)
         ELSE <<Head(t)>> \o DropFirstNonWord(Tail(t))
process_code_first_only(text) == DropFirstNonWord(Upper(text))

\* lines 66-70: _process_code
process_code(text) == SelectSeq(Upper(text), IsWordChar)

\* str.split(): the maximal runs of non-blank characters
RECURSIVE SplitWhite(_, _)
SplitWhite(t, word) ==
    IF t = <<>> THEN IF word = <<>> THEN <<>> ELSE <<word>>
    ELSE IF IsWhite(Head(t))
         THEN (IF word = <<>> THEN <<>> ELSE <<word>>) \o SplitWhite(Tail(t), <<>>)
         ELSE SplitWhite(Tail(t), Append(word, Head(t)))

\* str.capitalize()
Capitalize(word) ==
    [i \in 1..Len(word) |-> IF i = 1 THEN UpperChar(word[i]) ELSE LowerChar(word[i])]

\* lines 73-76: _process_brand
process_brand(text) ==
    LET words == SplitWhite(text, <<>>) IN
    JoinSpace([i \in 1..Len(words) |-> Capitalize(words[i])])

\* lines 79-82: _process_label
process_label(text) == text

WeightNames == { <<"p", "e", "s", "o">>, <<"w", "e", "i", "g", "h", "t">> }
CodeNames == { <<"d", "x", "o">>, <<"c", "o", "d", "i", "g", "o">>, <<"c", "o", "d", "e">> }
BrandNames == { <<"m", "a", "r", "c", "a">>, <<"b", "r", "a", "n", "d">> }
LabelNames == { <<"e", "t", "i", "q", "u", "e", "t", "a">>, <<"l", "a", "b", "e", "l">>,
                <<"t", "a", "g">> }

\* postprocess_by_column comparing column_name without lower()
postprocess_case_sensitive(column_name, text) ==
    IF text = <<>> THEN <<>>
    ELSE LET cleaned == clean_text(text) IN
         IF column_name \in WeightNames THEN process_weight(cleaned)
         ELSE IF column_name \in CodeNames THEN process_code(cleaned)
         ELSE IF column_name \in BrandNames THEN process_brand(cleaned)
         ELSE IF column_name \in LabelNames THEN process_label(cleaned)
         ELSE cleaned

\* lines 12-39: postprocess_by_column
postprocess_by_column(column_name, text) ==
    IF text = <<>> THEN <<>>
    ELSE LET cleaned == clean_text(text) IN
         IF Lower(column_name) \in WeightNames THEN process_weight(cleaned)
         ELSE IF Lower(column_name) \in CodeNames THEN process_code(cleaned)
         ELSE IF Lower(column_name) \in BrandNames THEN process_brand(cleaned)
         ELSE IF Lower(column_name) \in LabelNames THEN process_label(cleaned)
         ELSE cleaned

\* the column names and texts tried
ColumnNames ==
    { <<"P", "e", "s", "o">>, <<"w", "e", "i", "g", "h", "t">>,
      <<"D", "X", "O">>, <<"c", "o", "d", "i", "g", "o">>, <<"C", "o", "d", "e">>,
      <<"M", "a", "r", "c", "a">>, <<"B", "R", "A", "N", "D">>,
      <<"E", "t", "i", "q", "u", "e", "t", "a">>, <<"l", "a", "b", "e", "l">>,
      <<"T", "a", "g">>, <<"O", "t", "r", "o">>, <<>> }
TextAlphabet == {"a", "G", "1", " ", "-", ".", "_", "$"}
ScenarioTexts ==
    { <<"1", "2", ".", "5", " ", "k", "g">>,
      <<"a", "b", "-", "1", "2", " ", "x">>,
      <<"j", "o", "h", "n", " ", "d", "e", "e", "r", "e">>,
      <<"\t", "a", "\n", " ", "B", "c", "\t">>,
      <<"n", "o", " ", "7", "l", "b", "s", " ", "3", ".", "2", "5", ".", "1">> }
PostTexts == SeqsUpTo(TextAlphabet, MaxTextLen) \cup ScenarioTexts

PostIdle ==
    /\ p_pc = "idle"
    /\ p_col = <<>>
    /\ p_text = <<>>
    /\ p_out = <<>>
    /\ p_out2 = <<>>

PostInit ==
    /\ p_pc = "in"
    /\ p_col \in ColumnNames
    /\ p_text \in PostTexts
    /\ p_out = <<>>
    /\ p_out2 = <<>>

\* postprocess_by_column(column_name, text)
Postprocess ==
    /\ UNCHANGED notPostVars
    /\ p_pc = "in"
    /\ p_out' = postprocess_by_column(p_col, p_text)
    /\ p_pc' = "once"
    /\ UNCHANGED <<p_col, p_text, p_out2>>

\* postprocess_by_column applied to its own result
PostprocessAgain ==
    /\ UNCHANGED notPostVars
    /\ p_pc = "once"
    /\ p_out2' = postprocess_by_column(p_col, p_out)
    /\ p_pc' = "twice"
    /\ UNCHANGED <<p_col, p_text, p_out>>

PostNext == Postprocess \/ PostprocessAgain

PostDone == p_pc \in {"once", "twice"}

IsAlnum(ch) == IsLower(ch) \/ IsUpper(ch) \/ IsDigit(ch)

\* C15: for a code-like column the result is exactly the alphanumeric
\* characters of the input, in order, upper-cased; every other character
\* (whitespace, hyphen, period, underscore, symbols) is removed.
C15_CodeIsUpperCasedAlphanumerics ==
    (PostDone /\ Lower(p_col) \in CodeNames) =>
        p_out = Upper(SelectSeq(p_text, IsAlnum))

\* the first numeric token of t, which holds a digit: the longest run of
\* digits from the first digit on, with a "." and the digits after it if any
FirstNumericToken(t) ==
    LET AllDigits(a, b) == \A n \in a..b : IsDigit(t[n])
        RunEnd(a) == CHOOSE b \in a..Len(t) :
                        AllDigits(a, b) /\ (b = Len(t) \/ ~IsDigit(t[b + 1]))
        i == CHOOSE n \in DOMAIN t : IsDigit(t[n]) /\ \A k \in 1..(n - 1) : ~IsDigit(t[k])
        j == RunEnd(i)
    IN IF j + 2 <= Len(t) /\ t[j + 1] = "." /\ IsDigit(t[j + 2])
       THEN SubSeq(t, i, RunEnd(j + 2))
       ELSE SubSeq(t, i, j)

\* C16: for a weight-like column (peso/weight) the result is the first
\* numeric token of the cleaned text, without any unit that follows it; a
\* cleaned text without a numeric token is returned unchanged.
C16_WeightIsFirstNumericToken ==
    (PostDone /\ Lower(p_col) \in WeightNames) =>
        LET cleaned == clean_text(p_text) IN
        IF \E n \in DOMAIN cleaned : IsDigit(cleaned[n])
        THEN p_out = FirstNumericToken(cleaned)
        ELSE p_out = cleaned

\* "12.5 kg" under "Peso" gave "12.5"
C16_Witness ==
    /\ p_pc = "once"
    /\ p_col = <<"P", "e", "s", "o">>
    /\ p_text = <<"1", "2", ".", "5", " ", "k", "g">>
    /\ p_out = <<"1", "2", ".", "5">>

\* the cleaned text: the allowed characters of t, its blank-separated words
\* joined by one space
CleanedText(t) ==
    LET Allowed(ch) == IsAlnum(ch) \/ IsWhite(ch) \/ ch \in {"_", "-", "."}
    IN JoinSpace(SplitWhite(SelectSeq(t, Allowed), <<>>))

\* C17: the dispatch depends only on the case-insensitive column name: the
\* same name in lower or upper case gives the same result; label-like
\* (etiqueta/label/tag) and unrecognized names give exactly the cleaned
\* text; the empty text gives the empty text under every column name.
C17_DispatchIgnoresCase ==
    PostDone =>
        /\ p_out = postprocess_by_column(Lower(p_col), p_text)
        /\ p_out = postprocess_by_column(Upper(p_col), p_text)
        /\ Lower(p_col) \notin (WeightNames \cup CodeNames \cup BrandNames) =>
                p_out = CleanedText(p_text)
        /\ p_text = <<>> => p_out = <<>>

\* a text with tabs and a newline under "Tag" came back cleaned
C17_Witness ==
    /\ p_pc = "once"
    /\ p_col = <<"T", "a", "g">>
    /\ p_text = <<"\t", "a", "\n", " ", "B", "c", "\t">>
    /\ p_out = <<"a", " ", "B", "c">>

(***************************************************************************)
(* BasicParserAdapter.words_to_table on its own                            *)
(***************************************************************************)
WordsIdle ==
    /\ w_pc = "idle"
    /\ w_words = <<>>
    /\ w_max_cols = <<>>
    /\ w_rows = <<>>
    /\ w_table = <<>>

WordsInit ==
    /\ w_pc = "in"
    /\ w_words \in WordLists
    /\ w_max_cols \in MaxColsValues
    /\ w_rows = <<>>
    /\ w_table = <<>>

\* lines 63-96: words_to_table(words, max_cols)
WordsToTable ==
    /\ UNCHANGED notWordsVars
    /\ w_pc = "in"
    /\ w_rows' = word_rows(w_words)
    /\ w_table' = words_to_table(w_words, w_max_cols)
    /\ w_pc' = "done"
    /\ UNCHANGED <<w_words, w_max_cols>>

WordsNext == WordsToTable

\* the threshold T = max(4, floor(average height / 2)) of the non-blank words
ClaimedThreshold(items) ==
    Max(4, SumSeq([i \in 1..Len(items) |-> items[i].h]) \div (2 * Len(items)))

InRow(r, w) == \E k \in DOMAIN w_rows[r] : w_rows[r][k] = w

\* C18: any two non-blank words whose anchors are at most T apart vertically
\* are placed in the same output row, and the words of every row are in
\* non-decreasing x order.
C18_CloseWordsShareARow ==
    w_pc = "done" =>
        LET items == SelectSeq(w_words, LAMBDA w : \E k \in DOMAIN w.text : w.text[k] /= " ") IN
        /\ Len(w_table) = Len(w_rows)
        /\ \A i \in DOMAIN items : \A j \in DOMAIN items :
            Abs(items[i].y - items[j].y) <= ClaimedThreshold(items)
                => \E r \in DOMAIN w_rows : InRow(r, items[i]) /\ InRow(r, items[j])
        /\ \A r \in DOMAIN w_rows : \A k \in 1..(Len(w_rows[r]) - 1) :
            w_rows[r][k].x <= w_rows[r][k + 1].x

\* a, b and c are chained into one row (a and c are 7 apart, T is 4) and
\* come out in x order: a, c, b
C18_Witness ==
    /\ w_pc = "done"
    /\ Len(w_words) = 3
    /\ w_words[1].text = <<"c">> /\ w_words[2].text = <<"b">> /\ w_words[3].text = <<"a">>
    /\ Len(w_rows) = 1
    /\ w_table[1] = << <<"a">>, <<"c">>, <<"b">> >>

\* C19: with a positive max_cols no row has more than max_cols cells; a row
\* of more words keeps its first max_cols-1 words and joins all the others,
\* in x order and separated by one space, into the last cell; with max_cols
\* None, zero or negative every row keeps one cell per word.
C19_MaxColsMergesTheTail ==
    w_pc = "done" =>
        /\ Len(w_table) = Len(w_rows)
        /\ \A r \in DOMAIN w_rows :
            LET line == w_rows[r]
                cells == w_table[r]
                n == IF w_max_cols = <<>> THEN 0 ELSE w_max_cols[1]
            IN IF n > 0 /\ Len(line) > n
               THEN /\ Len(cells) = n
                    /\ \A k \in 1..(n - 1) : cells[k] = line[k].text
                    /\ cells[n] = JoinSpace([k \in 1..(Len(line) - n + 1) |->
                                                line[n + k - 1].text])
               ELSE /\ Len(cells) = Len(line)
                    /\ \A k \in DOMAIN line : cells[k] = line[k].text
                    /\ n > 0 => Len(cells) <= n

\* a row of three words under max_cols = 2: "a" and then "c b"
C19_Witness ==
    /\ w_pc = "done"
    /\ w_max_cols = <<2>>
    /\ Len(w_rows) = 1 /\ Len(w_rows[1]) = 3
    /\ w_table[1] = << <<"a">>, <<"c", " ", "b">> >>

\* C26: row membership is bounded by the threshold: any two words placed in
\* the same output row have anchors at most T = max(4, floor(average word
\* height / 2)) apart vertically, also for a column of words each within T
\* of the next.
C26_RowMatesAreWithinThreshold ==
    w_pc = "done" =>
        LET items == SelectSeq(w_words, LAMBDA w : \E k \in DOMAIN w.text : w.text[k] /= " ") IN
        \A r \in DOMAIN w_rows : \A k \in DOMAIN w_rows[r] : \A l \in DOMAIN w_rows[r] :
            Abs(w_rows[r][k].y - w_rows[r][l].y) <= ClaimedThreshold(items)

\* the space-separated parts of every cell of the table, row by row
RECURSIVE CellParts(_)
CellParts(cells) ==
    IF cells = <<>> THEN <<>> ELSE SplitWhite(Head(cells), <<>>) \o CellParts(Tail(cells))
RECURSIVE TableParts(_)
TableParts(rows) ==
    IF rows = <<>> THEN <<>> ELSE CellParts(Head(rows)) \o TableParts(Tail(rows))
Occurrences(seq, e) == Cardinality({ i \in DOMAIN seq : seq[i] = e })

\* C27: words_to_table neither loses nor duplicates words: every non-blank
\* input word's text occurs in the output as often as in the input (as a
\* cell or as one space-separated part of a last cell), blank words occur
\* nowhere, no row is empty, and without non-blank words there are no rows.
C27_WordsArePreserved ==
    w_pc = "done" =>
        LET texts == [i \in DOMAIN w_words |-> w_words[i].text]
            parts == TableParts(w_table)
        IN /\ \A t \in { texts[k] : k \in DOMAIN texts } \ { <<" ">> } :
                Occurrences(parts, t) = Occurrences(texts, t)
           /\ \A i \in DOMAIN parts : parts[i] \in { texts[k] : k \in DOMAIN texts }
           /\ \A r \in DOMAIN w_table :
                /\ w_table[r] /= <<>>
                /\ \A k \in DOMAIN w_table[r] : SplitWhite(w_table[r][k], <<>>) /= <<>>
           /\ (\A i \in DOMAIN texts : texts[i] = <<" ">>) => w_table = <<>>

\* "a" twice around a blank word, merged under max_cols = 1 into "a a"
C27_Witness ==
    /\ w_pc = "done"
    /\ Len(w_words) = 3
    /\ w_words[1].text = <<"a">> /\ w_words[2].text = <<" ">> /\ w_words[3].text = <<"a">>
    /\ w_max_cols = <<1>>
    /\ w_table = << << <<"a", " ", "a">> >> >>

(***************************************************************************)
(* The Row Reconstructor of the template strategy (ocr_with_template).     *)
(*                                                                         *)
(* A recognized value is keyed by its (row, col) slot.  Cells whose crop    *)
(* was dropped or whose recognition failed contribute no value; a cell     *)
(* read as "" contributes the empty text.                                  *)
(***************************************************************************)
TplCols == {1, 2}
Slots == (1..MaxTplRows) \X TplCols

\* the largest row index the GridSpec declares
MaxRowIndex(cells) == CHOOSE n \in {c[1] : c \in cells} : \A c \in cells : c[1] <= n

\* the expected columns, in ascending order
RECURSIVE SortedCols(_)
SortedCols(cols) ==
    IF cols = {} THEN <<>>
    ELSE LET least == CHOOSE c \in cols : \A d \in cols : c <= d
         IN <<least>> \o SortedCols(cols \ {least})

\* the keyed store of recognized values, filled in recognition order
RECURSIVE ValueStore(_, _)
ValueStore(values, store) ==
    IF values = <<>> THEN store
    ELSE LET v == Head(values) IN
         ValueStore(Tail(values), [store EXCEPT ![v.slot] = <<v.text>>])

\* rows built only up to the largest row that produced a value
reconstruct_recognized_rows(cells, values) ==
    LET store == ValueStore(values, [s \in Slots |-> <<>>])
        cols == SortedCols({c[2] : c \in cells})
        rows == {values[i].slot[1] : i \in DOMAIN values}
        n == IF rows = {} THEN 0 ELSE CHOOSE m \in rows : \A r \in rows : r <= m
    IN [r \in 1..n |-> [k \in 1..Len(cols) |->
            IF store[<<r, cols[k]>>] = <<>> THEN <<>> ELSE store[<<r, cols[k]>>][1]]]

\* rows 1..max row index; per row and expected column the value, else ""
reconstruct_rows(cells, values) ==
    LET store == ValueStore(values, [s \in Slots |-> <<>>])
        cols == SortedCols({c[2] : c \in cells})
    IN [r \in 1..MaxRowIndex(cells) |-> [k \in 1..Len(cols) |->
            IF store[<<r, cols[k]>>] = <<>> THEN <<>> ELSE store[<<r, cols[k]>>][1]]]

\* the sequences without repetition over the elements of S
RECURSIVE Orderings(_)
Orderings(S) ==
    { <<>> } \cup UNION { { <<e>> \o t : t \in Orderings(S \ {e}) } : e \in S }

\* a text that tells the slots apart: the column's letter, row-index times
RecognizedText(slot) == [i \in 1..slot[1] |-> IF slot[2] = 1 THEN "a" ELSE "b"]

ReconIdle ==
    /\ r_pc = "idle"
    /\ r_cells = {}
    /\ r_values = <<>>
    /\ r_grid = <<>>

ReconInit ==
    /\ r_pc = "in"
    /\ r_cells \in (SUBSET Slots) \ {{}}
    /\ \E order \in Orderings(r_cells) :
        r_values = [i \in DOMAIN order |-> [slot |-> order[i], text |-> RecognizedText(order[i])]]
    /\ r_grid = <<>>

Reconstruct ==
    /\ UNCHANGED notReconVars
    /\ r_pc = "in"
    /\ r_grid' = reconstruct_rows(r_cells, r_values)
    /\ r_pc' = "done"
    /\ UNCHANGED <<r_cells, r_values>>

ReconNext == Reconstruct

\* C21: the reconstructed grid has exactly N rows, N the largest declared
\* row index, in ascending row order, whatever subset of the cells was
\* recognized and in whatever order; every slot without a value holds "".
C21_RowCompleteness ==
    r_pc = "done" =>
        /\ \E c \in r_cells : c[1] = Len(r_grid)
        /\ \A c \in r_cells : c[1] <= Len(r_grid)
        /\ \A r \in DOMAIN r_grid :
            /\ Len(r_grid[r]) = Cardinality({c[2] : c \in r_cells})
            /\ \A col \in {c[2] : c \in r_cells} :
                LET k == Cardinality({c[2] : c \in r_cells} \cap (1..col)) IN
                IF \E i \in DOMAIN r_values : r_values[i].slot = <<r, col>>
                THEN r_grid[r][k] = RecognizedText(<<r, col>>)
                ELSE r_grid[r][k] = <<>>

\* the GridSpec declares rows 1 and 2; only a cell of row 1 was recognized
C21_Witness ==
    /\ r_pc = "done"
    /\ r_cells = Slots
    /\ Len(r_values) = 1 /\ r_values[1].slot = <<1, 2>>
    /\ Len(r_grid) = 2
    /\ r_grid[2] = << <<>>, <<>> >>

(***************************************************************************)
(* gui/app_window.py: OCRWorker.run                                        *)
(*                                                                         *)
(* A signal is its name and, for progress, its value.  What the file       *)
(* system, the adapters' constructors and the use case do is chosen by the *)
(* environment at the step that asks.                                      *)
(***************************************************************************)
Sig(name, arg) == [sig |-> name, arg |-> arg]
Log == Sig("log_message", 0)
Progress(n) == Sig("progress", n)

\* the except clause logging the error without emitting the error signal
ErrorSignalsLogOnly == <<Log>>

\* lines 287-291: except Exception: log_message.emit, logging.error, error.emit
ErrorSignals == <<Log, Sig("error", 0)>>

\* lines 201-219: validation of the image and of the output directory;
\* [signals emitted, exception raised?]
ValidateStep(img, out) ==
    IF img /= "file" THEN [signals |-> <<Log, Progress(5)>>, raised |-> TRUE]
    ELSE IF out = "exists"
    THEN [signals |-> <<Log, Progress(5), Log, Progress(10)>>, raised |-> FALSE]
    ELSE IF out = "created"
    THEN [signals |-> <<Log, Progress(5), Log, Log, Progress(10)>>, raised |-> FALSE]
    ELSE [signals |-> <<Log, Progress(5), Log>>, raised |-> TRUE]

\* lines 221-262: the three adapters, the use case object, the configuration
BuildStep(failing) ==
    IF failing = "ocr" THEN [signals |-> <<Log>>, raised |-> TRUE]
    ELSE IF failing = "parser" THEN [signals |-> <<Log, Log>>, raised |-> TRUE]
    ELSE IF failing = "exporter" THEN [signals |-> <<Log, Log, Log>>, raised |-> TRUE]
    ELSE [signals |-> <<Log, Log, Log, Log, Log, Progress(25), Log, Log, Log,
                        Progress(35), Log, Progress(40)>>,
          raised |-> FALSE]

\* lines 264-285: the use case call, the check of the output file, finished
UseCaseStep(outcome) ==
    IF outcome = "raises" THEN [signals |-> <<>>, raised |-> TRUE]
    ELSE IF outcome \in {"no_file", "stat_raises"}
    THEN [signals |-> <<Log, Progress(80)>>, raised |-> TRUE]
    ELSE [signals |-> <<Log, Progress(80), Log, Progress(100), Log, Sig("finished", 0)>>,
          raised |-> FALSE]

ImageStates == {"missing", "not_file", "file"}
OutputDirStates == {"exists", "created", "mkdir_raises"}
BuildFailures == {"none", "ocr", "parser", "exporter"}
UseCaseOutcomes == {"raises", "no_file", "stat_raises", "file_written"}

WorkerIdle ==
    /\ k_pc = "idle"
    /\ k_signals = <<>>
    /\ k_runs = <<>>

\* QThread.start() was called: run() begins
WorkerInit ==
    /\ k_pc = "validate"
    /\ k_signals = <<>>
    /\ k_runs = <<>>

WorkerStep(at, step, next) ==
    /\ UNCHANGED notWorkerVars
    /\ k_pc = at
    /\ k_signals' = k_signals \o step.signals
    /\ k_pc' = IF step.raised THEN "except" ELSE next
    /\ UNCHANGED k_runs

RunValidate == \E img \in ImageStates, out \in OutputDirStates :
                    WorkerStep("validate", ValidateStep(img, out), "build")
RunBuild == \E failing \in BuildFailures : WorkerStep("build", BuildStep(failing), "use_case")
RunUseCase == \E outcome \in UseCaseOutcomes :
                    WorkerStep("use_case", UseCaseStep(outcome), "returned")

\* lines 287-291: the outer except clause
RunExcept ==
    /\ UNCHANGED notWorkerVars
    /\ k_pc = "except"
    /\ k_signals' = k_signals \o ErrorSignals
    /\ k_pc' = "returned"
    /\ UNCHANGED k_runs

\* run() has returned; a later conversion starts a new OCRWorker
RunReturn ==
    /\ UNCHANGED notWorkerVars
    /\ k_pc = "returned"
    /\ k_runs' = Append(k_runs, k_signals)
    /\ k_signals' = <<>>
    /\ k_pc' = IF Len(k_runs) + 1 < MaxExecs THEN "validate" ELSE "over"

WorkerNext == RunValidate \/ RunBuild \/ RunUseCase \/ RunExcept \/ RunReturn

IsTerminal(s) == s.sig \in {"finished", "error"}

\* C28: every execution of OCRWorker.run emits exactly one terminal signal
\* (finished or error), as its last signal, whichever step failed; and
\* progress 100 is emitted only by executions that end with finished.
C28_ExactlyOneTerminalSignal ==
    /\ \A r \in DOMAIN k_runs :
        LET sigs == k_runs[r] IN
        /\ Cardinality({ i \in DOMAIN sigs : IsTerminal(sigs[i]) }) = 1
        /\ sigs /= <<>> /\ IsTerminal(sigs[Len(sigs)])
        /\ (\E i \in DOMAIN sigs : sigs[i] = Progress(100))
                => sigs[Len(sigs)].sig = "finished"
    /\ k_pc /= "returned" => \A i \in DOMAIN k_signals : ~IsTerminal(k_signals[i])

\* one execution failed at the output-file check, the next one finished
C28_Witness ==
    /\ Len(k_runs) = 2
    /\ Progress(80) \in { k_runs[1][i] : i \in DOMAIN k_runs[1] }
    /\ k_runs[1][Len(k_runs[1])].sig = "error"
    /\ k_runs[2][Len(k_runs[2])].sig = "finished"

(***************************************************************************)
(* use_cases/process_image_to_excel.py: ProcessImageToExcel.execute, with  *)
(* PaddleOcrEngine.run_ocr and OpenpyxlExcelExporter.export_table          *)
(*                                                                         *)
(* An Optional[Table] is <<>> for None and <<rows>> for a Table.           *)
(***************************************************************************)
\* "\n".join(lines)
RECURSIVE JoinNewline(_)
JoinNewline(ts) ==
    IF ts = <<>> THEN <<>>
    ELSE IF Len(ts) = 1 THEN ts[1]
    ELSE ts[1] \o <<"\n">> \o JoinNewline(Tail(ts))

\* str.splitlines(): cur is the line being read
RECURSIVE SplitLines(_, _)
SplitLines(t, cur) ==
    IF t = <<>> THEN IF cur = <<>> THEN <<>> ELSE <<cur>>
    ELSE IF Head(t) = "\n" THEN <<cur>> \o SplitLines(Tail(t), <<>>)
    ELSE SplitLines(Tail(t), Append(cur, Head(t)))

\* what detect_table does: "absent" is an engine without a table detector
DetectorOutcomes == {"absent", "raises", "none", "no_rows", "rows"}
DetectedTable == << <<"x">>, <<"y">> >>

\* run_ocr letting the detector's exception escape
run_ocr_detector_uncaught(dets, detector) ==
    LET lines == SelectSeq(dets, LAMBDA txt : txt /= <<>>) IN
    [raised |-> detector = "raises",
     text |-> JoinNewline(lines),
     table |-> IF detector = "no_rows" THEN << <<>> >>
               ELSE IF detector = "rows" THEN <<DetectedTable>> ELSE <<>>]

\* lines 21-42 of paddle_ocr_engine.py: run_ocr
run_ocr(dets, detector) ==
    LET lines == SelectSeq(dets, LAMBDA txt : txt /= <<>>) IN
    [raised |-> FALSE,
     text |-> JoinNewline(lines),
     table |-> IF detector = "no_rows" THEN << <<>> >>
               ELSE IF detector = "rows" THEN <<DetectedTable>> ELSE <<>>]

\* lines 36-42 of execute: the detected table, or one row per text line
table_of(ocr) ==
    IF ocr.table /= <<>> /\ ocr.table[1] /= <<>> THEN ocr.table[1]
    ELSE LET lines == SelectSeq(SplitLines(ocr.text, <<>>), LAMBDA ln : Strip(ln) /= <<>>)
         IN [i \in 1..Len(lines) |-> <<lines[i]>>]

DetectionPool == { <<>>, <<" ">>, <<"a">>, <<"b", " ">> }
NoOcrResult == [raised |-> FALSE, text |-> <<>>, table |-> <<>>]

ExecIdle ==
    /\ e_pc = "idle"
    /\ e_dets = <<>>
    /\ e_detector = "absent"
    /\ e_ocr = NoOcrResult
    /\ e_table = <<>>
    /\ e_written = <<>>
    /\ e_result = Pending

\* the image is loaded and preprocessed; what the OCR will see is fixed
ExecInit ==
    /\ e_pc = "ocr"
    /\ e_dets \in SeqsUpTo(DetectionPool, MaxLines)
    /\ e_detector \in DetectorOutcomes
    /\ e_ocr = NoOcrResult
    /\ e_table = <<>>
    /\ e_written = <<>>
    /\ e_result = Pending

\* line 34: ocr = self._ocr_engine.run_ocr(image)
ExecRunOcr ==
    /\ UNCHANGED notExecVars
    /\ e_pc = "ocr"
    /\ LET ocr == run_ocr(e_dets, e_detector) IN
        /\ e_ocr' = ocr
        /\ e_pc' = IF ocr.raised THEN "done" ELSE "table"
        /\ e_result' = IF ocr.raised THEN [kind |-> "detector_exception"] ELSE e_result
    /\ UNCHANGED <<e_dets, e_detector, e_table, e_written>>

\* lines 36-45: the table to export
ExecBuildTable ==
    /\ UNCHANGED notExecVars
    /\ e_pc = "table"
    /\ e_table' = table_of(e_ocr)
    /\ e_pc' = "export"
    /\ UNCHANGED <<e_dets, e_detector, e_ocr, e_written, e_result>>

\* line 47 and export_table: an empty table raises before any workbook
\* exists; wb.save writes the file or fails
ExecExport ==
    /\ UNCHANGED notExecVars
    /\ e_pc = "export"
    /\ IF e_table = <<>>
       THEN /\ e_result' = [kind |-> "ValueError"]
            /\ e_written' = e_written
       ELSE \E saved \in BOOLEAN :
            /\ e_result' = IF saved THEN [kind |-> "path"] ELSE [kind |-> "OSError"]
            /\ e_written' = IF saved THEN <<e_table>> ELSE e_written
    /\ e_pc' = "done"
    /\ UNCHANGED <<e_dets, e_detector, e_ocr, e_table>>

ExecNext == ExecRunOcr \/ ExecBuildTable \/ ExecExport

\* the OCR text lines that are not blank, in order
NonBlankLines == SelectSeq(e_dets, LAMBDA txt : \E k \in DOMAIN txt : txt[k] /= " ")

\* C29: a table detector that raises, returns nothing or returns a table
\* without rows never aborts execute: the exported table has one single-cell
\* row per non-blank OCR text line, in line order; only without such a line
\* does the run end in the exporter's empty-table error, no workbook written.
C29_DetectorFailureFallsBackToLines ==
    (e_pc = "done" /\ e_detector \in {"raises", "none", "no_rows"}) =>
        /\ e_result.kind /= "detector_exception"
        /\ e_table = [i \in 1..Len(NonBlankLines) |-> <<NonBlankLines[i]>>]
        /\ e_result.kind = "ValueError" <=> NonBlankLines = <<>>
        /\ e_result.kind = "ValueError" => e_written = <<>>
        /\ e_result.kind = "path" => e_written = <<e_table>>

\* the detector raised; of the lines "", "b " and " " only "b " was exported
C29_Witness ==
    /\ e_pc = "done"
    /\ e_detector = "raises"
    /\ e_dets = << <<"b", " ">>, <<" ">> >>
    /\ e_written = << << << <<"b", " ">> >> >> >>
    /\ e_result.kind = "path"

(***************************************************************************)
(* config.py: AppConfig.ocr_min_confidence                                 *)
(*                                                                         *)
(* AppConfig is a plain @dataclass: __post_init__ runs once, at the end of *)
(* the generated __init__, and nothing intercepts a later assignment.      *)
(* Confidences are in units of 1/Den, so Den is 1.0.                       *)
(***************************************************************************)
\* lines 116-119: _validate_config, the ocr_min_confidence test
ConfidenceIsValid(v) == ~(v < 0 \/ v > Den)

\* -0.1, 0, 0.5 (the default), 0.8, 1, 1.5
ConfidenceValues == {-2, 0, 10, 16, Den, 30}

ConfigIdle ==
    /\ c_config = <<>>
    /\ c_log = <<>>

ConfigInit == ConfigIdle

\* AppConfig(ocr_min_confidence=v): the fields are set, then __post_init__
ConstructConfig ==
    /\ UNCHANGED notConfigVars
    /\ c_config = <<>>
    /\ c_log = <<>>
    /\ \E v \in ConfidenceValues :
        IF ConfidenceIsValid(v)
        THEN /\ c_config' = <<v>>
             /\ c_log' = <<[op |-> "construct", value |-> v, raised |-> FALSE]>>
        ELSE /\ c_config' = <<>>
             /\ c_log' = <<[op |-> "construct", value |-> v, raised |-> TRUE]>>

\* config.ocr_min_confidence = v: the dataclass stores the value
AssignConfidence ==
    /\ UNCHANGED notConfigVars
    /\ c_config /= <<>>
    /\ Len(c_log) <= MaxAssigns
    /\ \E v \in ConfidenceValues :
        /\ c_config' = <<v>>
        /\ c_log' = Append(c_log, [op |-> "assign", value |-> v, raised |-> FALSE])

ConfigNext == ConstructConfig \/ AssignConfidence

\* C24: the ocr_min_confidence of an AppConfig is always within [0, 1]: a
\* construction or an assignment with a value outside raises and is not
\* stored, one with a value inside succeeds and reads back.
C24_MinConfidenceAlwaysInRange ==
    /\ c_config /= <<>> => (0 <= c_config[1] /\ c_config[1] <= Den)
    /\ \A k \in DOMAIN c_log : c_log[k].raised <=> ~(0 <= c_log[k].value /\ c_log[k].value <= Den)

(***************************************************************************)
(* services/parser.py: TableParser                                         *)
(*                                                                         *)
(* A line of the OCR result is a record: kind "line" is an OCRTextLine     *)
(* with a str text, "no_text" an object without a text attribute and       *)
(* "bad_text" one whose text is a number; confidence is <<>> for None or   *)
(* <<c>> with c in units of 1/Den.  An optional separator is <<>> or <<p>>.*)
(***************************************************************************)
\* lines 31, 40: ParsingConfig defaults min_column_width, min_confidence_threshold (0.5)
MinColumnWidth == 3
MinConfidenceThreshold == 10

\* str.strip()
RECURSIVE StripWhite(_)
StripWhite(t) ==
    IF t /= <<>> /\ IsWhite(Head(t)) THEN StripWhite(Tail(t))
    ELSE IF t /= <<>> /\ IsWhite(t[Len(t)]) THEN StripWhite(SubSeq(t, 1, Len(t) - 1))
    ELSE t

\* lines 95-107: the pattern strings of _compile_separators for the default
\* separators '\t', '  ', '|', ';', ',' (re.escape leaves ';' and ',' alone)
SeparatorPatterns == <<"\\t+", "\\s{2,}", "\\|+", ";+", ",+">>

\* the regex a pattern string compiles to: a literal prefix, then a run of
\* at least min characters of class
CompiledRegex(p) ==
    IF p = "\\t+" THEN [prefix |-> <<>>, class |-> {"\t"}, min |-> 1]
    ELSE IF p = "\\s{2,}" THEN [prefix |-> <<>>, class |-> {" ", "\t", "\n"}, min |-> 2]
    ELSE IF p = "\\|+" THEN [prefix |-> <<>>, class |-> {"|"}, min |-> 1]
    ELSE IF p = ";+" THEN [prefix |-> <<>>, class |-> {";"}, min |-> 1]
    ELSE [prefix |-> <<>>, class |-> {","}, min |-> 1]

\* lines 393-400, 409-414: the regex re.split is called with for pattern p;
\* re.escape(p.replace('+', '')) + '+' turns \|+ into \\\|+, a backslash
\* followed by bars
SplitRegex(p) ==
    IF p = "\\|+" THEN [prefix |-> <<"\\">>, class |-> {"|"}, min |-> 1]
    ELSE CompiledRegex(p)

\* the length of the run of class characters of t that starts at i
RECURSIVE RunLen(_, _, _)
RunLen(t, i, class) ==
    IF i <= Len(t) /\ t[i] \in class THEN 1 + RunLen(t, i + 1, class) ELSE 0

\* the length of the match of rx at position i of t, 0 without a match
MatchLen(t, i, rx) ==
    LET n == Len(rx.prefix)
        run == RunLen(t, i + n, rx.class)
    IN IF i + n - 1 <= Len(t) /\ SubSeq(t, i, i + n - 1) = rx.prefix /\ run >= rx.min
       THEN n + run ELSE 0

\* re.split(rx, t): cur is the piece being read
RECURSIVE ReSplitFrom(_, _, _, _)
ReSplitFrom(t, i, cur, rx) ==
    IF i > Len(t) THEN <<cur>>
    ELSE LET n == MatchLen(t, i, rx) IN
         IF n > 0 THEN <<cur>> \o ReSplitFrom(t, i + n, <<>>, rx)
         ELSE ReSplitFrom(t, i + 1, Append(cur, t[i]), rx)
ReSplit(t, rx) == ReSplitFrom(t, 1, <<>>, rx)

\* len(pattern.findall(t))
RECURSIVE FindallCount(_, _, _)
FindallCount(t, i, rx) ==
    IF i > Len(t) THEN 0
    ELSE LET n == MatchLen(t, i, rx) IN
         IF n > 0 THEN 1 + FindallCount(t, i + n, rx) ELSE FindallCount(t, i + 1, rx)

RECURSIVE Flatten(_)
Flatten(ss) == IF ss = <<>> THEN <<>> ELSE Head(ss) \o Flatten(Tail(ss))

\* lines 403-415: every pattern in turn splits every column so far
RECURSIVE FallbackSplit(_, _)
FallbackSplit(columns, k) ==
    IF k > Len(SeparatorPatterns) THEN columns
    ELSE FallbackSplit(
            Flatten([c \in 1..Len(columns) |-> ReSplit(columns[c], SplitRegex(SeparatorPatterns[k]))]),
            k + 1)

\* lines 361-423: _split_line_into_columns
split_line_into_columns(config, text, main_separator) ==
    IF text = <<>> THEN <<>>
    ELSE LET t1 == IF config.remove_extra_spaces THEN CollapseWhite(text) ELSE text
             t2 == IF config.normalize_whitespace THEN JoinSpace(SplitWhite(t1, <<>>)) ELSE t1
             columns == IF main_separator /= <<>>
                        THEN ReSplit(t2, SplitRegex(main_separator[1]))
                        ELSE FallbackSplit(<<t2>>, 1)
             stripped == [c \in 1..Len(columns) |-> StripWhite(columns[c])]
         IN SelectSeq(stripped, LAMBDA col : col /= <<>> /\ Len(col) >= MinColumnWidth)

\* lines 170-210: _filter_lines_by_confidence; the debug message of a line
\* below the threshold evaluates line.text[:50]
BelowThreshold(line) == line.confidence /= <<>> /\ line.confidence[1] < MinConfidenceThreshold
filter_lines_by_confidence(lines) ==
    [failed |-> \E k \in DOMAIN lines : BelowThreshold(lines[k]) /\ lines[k].kind /= "line",
     lines |-> SelectSeq(lines, LAMBDA line : ~BelowThreshold(line))]

\* the lines a loop body reaches line.text.strip() for, and those it yields
\* a stripped text for
HasText(line) == line.kind /= "no_text" /\ ~(line.kind = "line" /\ line.text = <<>>)
Readable(line) == line.kind = "line" /\ StripWhite(line.text) /= <<>>

\* lines 238-241: what separator_counts holds for pattern p after the loop
RECURSIVE SeparatorCount(_, _)
SeparatorCount(lines, p) ==
    IF lines = <<>> THEN 0
    ELSE (IF Readable(Head(lines))
          THEN FindallCount(StripWhite(Head(lines).text), 1, CompiledRegex(p)) ELSE 0)
         + SeparatorCount(Tail(lines), p)

\* the position at which p entered separator_counts: the first line it
\* matched in, then its place among the patterns
RECURSIVE FirstMatch(_, _, _)
FirstMatch(lines, k, p) ==
    IF k > Len(lines) THEN k
    ELSE IF Readable(lines[k]) /\ FindallCount(StripWhite(lines[k].text), 1, CompiledRegex(p)) > 0
         THEN k ELSE FirstMatch(lines, k + 1, p)

\* lines 212-277: _detect_table_structure, its main_separator: max() keeps
\* the first of the entries with the largest count
detect_table_structure(lines) ==
    LET idx == DOMAIN SeparatorPatterns
        count(k) == SeparatorCount(lines, SeparatorPatterns[k])
        first(k) == FirstMatch(lines, 1, SeparatorPatterns[k])
        before(a, b) == first(a) < first(b) \/ (first(a) = first(b) /\ a <= b)
        found == { k \in idx : count(k) > 0 }
        best == { k \in found : \A j \in found : count(j) <= count(k) }
    IN [failed |-> \E k \in DOMAIN lines : HasText(lines[k]) /\ lines[k].kind = "bad_text",
        main_separator |-> IF found = {} THEN <<>>
                           ELSE <<SeparatorPatterns[CHOOSE k \in best : \A j \in best : before(k, j)]>>]

\* lines 305-358: _parse_lines_to_rows; a line that fails is recorded and skipped
RECURSIVE parse_lines_to_rows(_, _, _, _)
parse_lines_to_rows(config, lines, i, main_separator) ==
    IF i > Len(lines) THEN [rows |-> <<>>, errors |-> <<>>]
    ELSE LET rest == parse_lines_to_rows(config, lines, i + 1, main_separator)
             line == lines[i]
         IN IF ~HasText(line) THEN rest
            ELSE IF line.kind = "bad_text"
                 THEN [rows |-> rest.rows, errors |-> <<[where |-> "line", index |-> i]>> \o rest.errors]
            ELSE LET text == StripWhite(line.text)
                     cells == IF text = <<>> THEN <<>>
                              ELSE split_line_into_columns(config, text, main_separator)
                 IN IF cells = <<>> THEN rest
                    ELSE [rows |-> <<cells>> \o rest.rows, errors |-> rest.errors]

\* lines 129-157: the body of the try block of parse_ocr_to_table
parse_body(config, lines) ==
    LET flt == filter_lines_by_confidence(lines)
        structure == IF config.detect_table_structure THEN detect_table_structure(flt.lines)
                     ELSE [failed |-> FALSE, main_separator |-> <<>>]
        parsed == parse_lines_to_rows(config, flt.lines, 1, structure.main_separator)
    IN IF config.use_confidence_filtering /\ flt.failed THEN [failed |-> TRUE]
       ELSE IF structure.failed THEN [failed |-> TRUE]
       ELSE [failed |-> FALSE, rows |-> parsed.rows, errors |-> parsed.errors]

\* parse_ocr_to_table without its except clause
parse_ocr_to_table_uncaught(config, lines) ==
    LET body == parse_body(config, lines) IN
    IF body.failed THEN [raised |-> TRUE, table |-> <<>>, errors |-> <<>>]
    ELSE [raised |-> FALSE, table |-> body.rows, errors |-> body.errors]

\* lines 110-168: parse_ocr_to_table
parse_ocr_to_table(config, lines) ==
    LET body == parse_body(config, lines) IN
    IF body.failed THEN [raised |-> FALSE, table |-> <<>>, errors |-> <<[where |-> "parse"]>>]
    ELSE [raised |-> FALSE, table |-> body.rows, errors |-> body.errors]

\* text.join(fields)
RECURSIVE JoinWith(_, _)
JoinWith(fields, sep) ==
    IF fields = <<>> THEN <<>>
    ELSE IF Len(fields) = 1 THEN fields[1]
    ELSE fields[1] \o sep \o JoinWith(Tail(fields), sep)

DefaultParsingConfig ==
    [remove_extra_spaces |-> TRUE, normalize_whitespace |-> TRUE,
     use_confidence_filtering |-> TRUE, detect_table_structure |-> TRUE]
ParsingConfigs ==
    { DefaultParsingConfig,
      [DefaultParsingConfig EXCEPT !.remove_extra_spaces = FALSE, !.normalize_whitespace = FALSE],
      [DefaultParsingConfig EXCEPT !.detect_table_structure = FALSE] }

FieldSeqs == { << <<"C", "o", "l", "1">>, <<"A", "g", "e">> >>,
               << <<"C", "o", "l", "1">>, <<"C", "o", "l", "2">>, <<"C", "o", "l", "3">> >> }
ClaimedSeparators == { <<"\t">>, <<" ", " ">> }
FieldSeparators == ClaimedSeparators \cup { <<";">> }
LineTexts == { JoinWith(fs, sep) : fs \in FieldSeqs, sep \in FieldSeparators }
Confidences == { <<>>, <<4>>, <<18>> }
LinePool ==
    { [kind |-> "line", text |-> t, confidence |-> c] : t \in LineTexts, c \in Confidences }
    \cup { [kind |-> k, text |-> <<>>, confidence |-> c] :
              k \in {"no_text", "bad_text"}, c \in {<<>>, <<4>>} }

NoParse == [raised |-> FALSE, table |-> <<>>, errors |-> <<>>]

ParserIdle ==
    /\ q_pc = "idle"
    /\ q_config = DefaultParsingConfig
    /\ q_lines = <<>>
    /\ q_columns = <<>>
    /\ q_out = NoParse

ParserInit ==
    /\ q_pc = "ready"
    /\ q_config \in ParsingConfigs
    /\ q_lines \in SeqsUpTo(LinePool, MaxParseLines)
    /\ q_columns = <<>>
    /\ q_out = NoParse

\* parser._split_line_into_columns(text) on the text of the first line
SplitLine ==
    /\ UNCHANGED notParserVars
    /\ q_pc = "ready"
    /\ q_lines /= <<>>
    /\ q_lines[1].kind = "line"
    /\ q_columns' = split_line_into_columns(q_config, q_lines[1].text, <<>>)
    /\ q_pc' = "split"
    /\ UNCHANGED <<q_config, q_lines, q_out>>

\* parser.parse_ocr_to_table(OCRResult(lines))
ParseOcrToTable ==
    /\ UNCHANGED notParserVars
    /\ q_pc = "ready"
    /\ q_out' = parse_ocr_to_table(q_config, q_lines)
    /\ q_pc' = "parsed"
    /\ UNCHANGED <<q_config, q_lines, q_columns>>

ParserNext == SplitLine \/ ParseOcrToTable

\* C22: a line whose fields are separated by tabs, or by runs of two or
\* more spaces, is split into its fields, in order; OCR lines of three
\* tab-separated fields are parsed into rows of three cells.
C22_SplitsSeparatedFields ==
    /\ q_pc = "split" =>
          \A fs \in FieldSeqs, sep \in ClaimedSeparators :
             q_lines[1].text = JoinWith(fs, sep) => q_columns = fs
    /\ (q_pc = "parsed" /\ q_lines /= <<>>
          /\ \A k \in DOMAIN q_lines :
                /\ q_lines[k].kind = "line"
                /\ q_lines[k].confidence = <<18>>
                /\ \E fs \in FieldSeqs : Len(fs) = 3 /\ q_lines[k].text = JoinWith(fs, <<"\t">>))
       => /\ Len(q_out.table) = Len(q_lines)
          /\ \A r \in DOMAIN q_out.table : Len(q_out.table[r]) = 3

\* the lines that pass the confidence filter, and what goes wrong
KeptLines == SelectSeq(q_lines, LAMBDA line : ~BelowThreshold(line))
FilterFails == \E k \in DOMAIN q_lines : BelowThreshold(q_lines[k]) /\ q_lines[k].kind /= "line"
BadKept == { k \in DOMAIN KeptLines : KeptLines[k].kind = "bad_text" }

C23_WitnessLineSkipped ==
    /\ q_pc = "parsed"
    /\ ~q_config.detect_table_structure
    /\ q_lines = << [kind |-> "line", text |-> <<"C", "o", "l", "1", ";", "A", "g", "e">>, confidence |-> <<18>>],
                    [kind |-> "bad_text", text |-> <<>>, confidence |-> <<>>] >>
    /\ q_out = [raised |-> FALSE,
                table |-> << << <<"C", "o", "l", "1">>, <<"A", "g", "e">> >> >>,
                errors |-> <<[where |-> "line", index |-> 2]>>]

\* what the code does with the lines of C22
C22_TabsCollapsed ==
    /\ q_pc = "split"
    /\ q_config = DefaultParsingConfig
    /\ q_lines[1].text = <<"C", "o", "l", "1", "\t", "C", "o", "l", "2", "\t", "C", "o", "l", "3">>
    /\ q_columns = << <<"C", "o", "l", "1", " ", "C", "o", "l", "2", " ", "C", "o", "l", "3">> >>

(***************************************************************************)
(* services/paddle_ocr.py: PaddleOCREngine                                 *)
(*                                                                         *)
(* The engine is the record [ocr, initialized, times, built]; a call       *)
(* returns the engine after it and how the call ended.                     *)
(***************************************************************************)
\* what the PaddleOCR constructor does in _initialize_ocr: "advanced" builds
\* with all parameters, "basic" after the trial construction failed, "fails"
\* when the construction for _ocr raises
InitOutcomes == {"advanced", "basic", "fails"}
\* _ocr.ocr and _parse_ocr_result: fine, fine without cls, both calls raise,
\* the result cannot be parsed
RecognitionOutcomes == {"ok", "ok_without_cls", "fails", "parse_fails"}

\* lines 78-138: _initialize_ocr
initialize_ocr(e, init) ==
    IF e.initialized THEN [engine |-> e, init |-> "skipped"]
    ELSE IF init = "fails" THEN [engine |-> e, init |-> init]
    ELSE [engine |-> [e EXCEPT !.ocr = e.built + 1, !.initialized = TRUE, !.built = e.built + 1],
          init |-> init]

\* the part of both extractions after the input was accepted
Extraction(e, init, recognition) ==
    LET started == initialize_ocr(e, init) IN
    IF started.init = "fails"
    THEN [engine |-> started.engine, init |-> started.init, outcome |-> "RuntimeError"]
    ELSE IF recognition = "fails"
    THEN [engine |-> started.engine, init |-> started.init, outcome |-> "RuntimeError"]
    ELSE [engine |-> [started.engine EXCEPT !.times = @ + 1], init |-> started.init,
          outcome |-> IF recognition = "parse_fails" THEN "RuntimeError" ELSE "result"]

\* lines 140-201: extract_text
extract_text(e, path, init, recognition) ==
    IF path /= "valid" THEN [engine |-> e, init |-> "not_reached", outcome |-> path]
    ELSE Extraction(e, init, recognition)

\* lines 203-245: extract_text_from_array
extract_text_from_array(e, is_image, init, recognition) ==
    IF ~is_image THEN [engine |-> e, init |-> "not_reached", outcome |-> "RuntimeError"]
    ELSE Extraction(e, init, recognition)

\* lines 384-388: clear_cache
clear_cache(e) == [e EXCEPT !.times = 0]

\* shutdown dropping the instance and keeping the flag
shutdown_keeps_flag(e) ==
    IF e.ocr /= NoOcr THEN clear_cache([e EXCEPT !.ocr = NoOcr]) ELSE e

\* lines 390-401: shutdown
shutdown(e) ==
    IF e.ocr /= NoOcr THEN clear_cache([e EXCEPT !.ocr = NoOcr, !.initialized = FALSE]) ELSE e

Engine == [ocr |-> n_ocr, initialized |-> n_initialized, times |-> n_times, built |-> n_built]
PathStates == {"valid", "ValueError", "FileNotFoundError"}

EngineIdle ==
    /\ n_ocr = NoOcr
    /\ n_initialized = FALSE
    /\ n_times = 0
    /\ n_built = 0
    /\ n_log = <<>>

\* lines 56-76: __init__
EngineInit == EngineIdle

\* the engine after a call, and the call in the log
EngineBecomes(e, entry_) ==
    /\ UNCHANGED notEngineVars
    /\ Len(n_log) < MaxCalls
    /\ n_ocr' = e.ocr
    /\ n_initialized' = e.initialized
    /\ n_times' = e.times
    /\ n_built' = e.built
    /\ n_log' = Append(n_log, entry_)

EngineExtractText ==
    \E path \in PathStates, init \in InitOutcomes, recognition \in RecognitionOutcomes :
        LET r == extract_text(Engine, path, init, recognition) IN
        EngineBecomes(r.engine, [op |-> "extract_text", init |-> r.init, outcome |-> r.outcome])

EngineExtractTextFromArray ==
    \E is_image \in BOOLEAN, init \in InitOutcomes, recognition \in RecognitionOutcomes :
        LET r == extract_text_from_array(Engine, is_image, init, recognition) IN
        EngineBecomes(r.engine, [op |-> "extract_text_from_array", init |-> r.init, outcome |-> r.outcome])

ClearCache ==
    EngineBecomes(clear_cache(Engine), [op |-> "clear_cache", init |-> "not_reached", outcome |-> "done"])

Shutdown ==
    EngineBecomes(shutdown(Engine), [op |-> "shutdown", init |-> "not_reached", outcome |-> "done"])

EngineNext == EngineExtractText \/ EngineExtractTextFromArray \/ ClearCache \/ Shutdown

\* C30: after any sequence of extract_text, extract_text_from_array,
\* clear_cache and shutdown calls, failing ones included, _initialized is
\* true exactly when the engine holds an OCR instance; a failed
\* initialization leaves the engine uninitialized; the extraction that
\* follows a shutdown initializes the engine again.
C30_InitializedIffHoldsInstance ==
    /\ n_initialized <=> n_ocr /= NoOcr
    /\ (n_log /= <<>> /\ n_log[Len(n_log)].init = "fails") => (~n_initialized /\ n_ocr = NoOcr)
    /\ \A k \in DOMAIN n_log :
          (k > 1 /\ n_log[k - 1].op = "shutdown" /\ n_log[k].op \in {"extract_text", "extract_text_from_array"}
             /\ n_log[k].init /= "not_reached")
          => /\ n_log[k].init \in InitOutcomes
             /\ (k = Len(n_log) /\ n_log[k].init /= "fails") => (n_initialized /\ n_ocr = n_built)

\* initialized, shut down, then initialized again by the next extraction
C30_Witness ==
    /\ Len(n_log) = 3
    /\ n_log[1] = [op |-> "extract_text", init |-> "advanced", outcome |-> "result"]
    /\ n_log[2].op = "shutdown"
    /\ n_log[3] = [op |-> "extract_text_from_array", init |-> "basic", outcome |-> "result"]
    /\ n_initialized
    /\ n_ocr = 2

\* an initialization failed after a shutdown
C30_WitnessInitFailed ==
    /\ Len(n_log) = 3
    /\ n_log[2].op = "shutdown"
    /\ n_log[3].init = "fails"
    /\ n_built = 1
    /\ ~n_initialized

(***************************************************************************)
(* Specifications: one per component, the others idle.                     *)
(***************************************************************************)
Init == ChainInit /\ GuiIdle /\ CropIdle /\ TplIdle /\ OcrIdle /\ PostIdle /\ WordsIdle /\ ReconIdle /\ WorkerIdle /\ ExecIdle /\ ConfigIdle /\ ParserIdle /\ EngineIdle

Spec == Init /\ [][Next]_vars

InitGui == GuiInit /\ ChainIdle /\ CropIdle /\ TplIdle /\ OcrIdle /\ PostIdle /\ WordsIdle /\ ReconIdle /\ WorkerIdle /\ ExecIdle /\ ConfigIdle /\ ParserIdle /\ EngineIdle

SpecGui == InitGui /\ [][GuiNext]_vars

InitCrop == CropInit /\ ChainIdle /\ GuiIdle /\ TplIdle /\ OcrIdle /\ PostIdle /\ WordsIdle /\ ReconIdle /\ WorkerIdle /\ ExecIdle /\ ConfigIdle /\ ParserIdle /\ EngineIdle

SpecCrop == InitCrop /\ [][CropNext]_vars

InitTpl == TplInit /\ ChainIdle /\ GuiIdle /\ CropIdle /\ OcrIdle /\ PostIdle /\ WordsIdle /\ ReconIdle /\ WorkerIdle /\ ExecIdle /\ ConfigIdle /\ ParserIdle /\ EngineIdle

SpecTpl == InitTpl /\ [][TplNext]_vars

InitOcr == OcrInit /\ ChainIdle /\ GuiIdle /\ CropIdle /\ TplIdle /\ PostIdle /\ WordsIdle /\ ReconIdle /\ WorkerIdle /\ ExecIdle /\ ConfigIdle /\ ParserIdle /\ EngineIdle

SpecOcr == InitOcr /\ [][OcrNext]_vars

InitPost ==
    PostInit /\ ChainIdle /\ GuiIdle /\ CropIdle /\ TplIdle /\ OcrIdle /\ WordsIdle /\ ReconIdle /\ WorkerIdle /\ ExecIdle /\ ConfigIdle /\ ParserIdle /\ EngineIdle

SpecPost == InitPost /\ [][PostNext]_vars

InitWords ==
    WordsInit /\ ChainIdle /\ GuiIdle /\ CropIdle /\ TplIdle /\ OcrIdle /\ PostIdle /\ ReconIdle /\ WorkerIdle /\ ExecIdle /\ ConfigIdle /\ ParserIdle /\ EngineIdle

SpecWords == InitWords /\ [][WordsNext]_vars

InitRecon ==
    ReconInit /\ ChainIdle /\ CropIdle /\ GuiIdle /\ OcrIdle /\ PostIdle /\ TplIdle /\ WordsIdle /\ WorkerIdle /\ ExecIdle /\ ConfigIdle /\ ParserIdle /\ EngineIdle

SpecRecon == InitRecon /\ [][ReconNext]_vars

InitWorker ==
    WorkerInit /\ ChainIdle /\ CropIdle /\ GuiIdle /\ OcrIdle /\ PostIdle /\ ReconIdle /\ TplIdle /\ WordsIdle /\ ExecIdle /\ ConfigIdle /\ ParserIdle /\ EngineIdle

SpecWorker == InitWorker /\ [][WorkerNext]_vars

InitExec ==
    ExecInit /\ ChainIdle /\ CropIdle /\ GuiIdle /\ OcrIdle /\ PostIdle /\ ReconIdle /\ TplIdle /\ WordsIdle /\ WorkerIdle /\ ConfigIdle /\ ParserIdle /\ EngineIdle

SpecExec == InitExec /\ [][ExecNext]_vars

InitConfig ==
    ConfigInit /\ ChainIdle /\ CropIdle /\ ExecIdle /\ GuiIdle /\ OcrIdle /\ PostIdle /\ ReconIdle /\ TplIdle /\ WordsIdle /\ WorkerIdle /\ ParserIdle /\ EngineIdle

SpecConfig == InitConfig /\ [][ConfigNext]_vars

InitParser ==
    ParserInit /\ ChainIdle /\ ConfigIdle /\ CropIdle /\ ExecIdle /\ GuiIdle /\ OcrIdle /\ PostIdle /\ ReconIdle /\ TplIdle /\ WordsIdle /\ WorkerIdle /\ EngineIdle

SpecParser == InitParser /\ [][ParserNext]_vars

InitEngine ==
    EngineInit /\ ChainIdle /\ ConfigIdle /\ CropIdle /\ ExecIdle /\ GuiIdle /\ OcrIdle /\ ParserIdle /\ PostIdle /\ ReconIdle /\ TplIdle /\ WordsIdle /\ WorkerIdle

SpecEngine == InitEngine /\ [][EngineNext]_vars

(***************************************************************************)
(* Claims about the fallback chain (checked under Spec).                   *)
(***************************************************************************)
StrategyEvents == SelectSeq(trace, LAMBDA e : e.op = "strategy")
ExportEvents == SelectSeq(trace, LAMBDA e : e.op = "export")

\* C1: whenever the template strategy (1) returned a grid holding a non-empty
\* string, neither strategy 2 nor strategy 3 is invoked in that run.
C1_TemplateResultStopsChain ==
    (\E i \in DOMAIN trace : trace[i] = Event("strategy", 1, "nontrivial"))
        => \A j \in DOMAIN trace : ~(trace[j].op = "strategy" /\ trace[j].n \in {2, 3})

\* C2: strategies are attempted in the order 1, 2, 3, each at most once; a
\* later one only after every earlier attempted one produced no non-trivial
\* grid; strategy 1 only with a template path, else the run starts at 2.
C2_FixedOrderUntilFirstResult ==
    LET se == StrategyEvents IN
    /\ \A i, j \in DOMAIN se : i < j => se[i].n < se[j].n
    /\ \A i, j \in DOMAIN se : i < j => se[i].out /= "nontrivial"
    /\ se /= <<>> => se[1].n = (IF cfg.template_path THEN 1 ELSE 2)

\* C3: if every attempted strategy raised or returned a grid without any
\* non-empty string, the run ends in an error for the caller, the exporter
\* is never invoked and no output path is returned.
C3_ExhaustionIsTerminalError ==
    (/\ StrategyEvents /= <<>>
     /\ \A i \in DOMAIN StrategyEvents : StrategyEvents[i].out \in {"raised", "trivial"}
     /\ StrategyEvents[Len(StrategyEvents)].n = 3)
        => /\ ExportEvents = <<>>
           /\ result.kind /= "path"
           /\ pc = "done" => result.kind \in {"strategy_exception", "export_error"}

\* C4: an exception raised by any strategy (1, 2 or 3) is swallowed: it never
\* reaches the caller as that strategy's exception, and when a later
\* strategy remains it is attempted.
C4_StrategyExceptionsAreSwallowed ==
    /\ result.kind /= "strategy_exception"
    /\ pc = "done" =>
         \A i \in DOMAIN trace :
            (trace[i].op = "strategy" /\ trace[i].out = "raised" /\ trace[i].n < 3)
                => \E j \in DOMAIN trace :
                      j > i /\ trace[j].op = "strategy" /\ trace[j].n = trace[i].n + 1

\* C5: a failed export call is the run's terminal error: after it no further
\* strategy is attempted and no further export call is made.
C5_ExportFailureIsTerminal ==
    \A i \in DOMAIN trace :
        (trace[i].op = "export" /\ trace[i].out = "raised")
            => /\ i = Len(trace)
               /\ pc = "done"
               /\ result.kind = "export_error"

Rectangular(rows) == \A i \in DOMAIN rows : \A j \in DOMAIN rows : Len(rows[i]) = Len(rows[j])

\* what the export call just made was handed: the grid of strategy 1 or 2
\* (lines 34 and 47), or the table of the line clustering (line 57)
LastExported ==
    IF trace[Len(trace)].n = 3 THEN table ELSE grid.rows

\* C20: every grid the fallback chain hands to the exporter is rectangular
\* (all rows have the same number of cells), whichever strategy produced it.
C20_ExportedGridIsRectangular ==
    (trace /= <<>> /\ trace[Len(trace)].op = "export") => Rectangular(LastExported)

\* the same for the tables of the line-clustering strategy alone
LineClusteringTableIsRectangular ==
    (trace /= <<>> /\ trace[Len(trace)].op = "export" /\ trace[Len(trace)].n = 3)
        => Rectangular(table)
====
